---- MODULE Spec2Model ----
(***************************************************************************)
(* Multi-provider streaming comparison engine of the AI Model Playground:  *)
(*   ComparisonService.startComparisonStreaming  (comparison.service.ts)   *)
(*   LangChainService.streamResponse / streamMultipleResponses             *)
(*   DatabaseService (database.module.ts)                                  *)
(*                                                                         *)
(* Node runs one callback at a time, so every action below is the code     *)
(* that runs between two suspension points.  A database call that the code *)
(* awaits takes effect in the step that resumes its caller.  A database    *)
(* call that the code does NOT await stays in flight and takes effect in a *)
(* later step of its own, in any order relative to the other calls in      *)
(* flight: updateModelResponse in the chunk callback, and the whole        *)
(* complete/error callback (an async function whose promise streamResponse *)
(* drops).                                                                 *)
(*                                                                         *)
(* Text is a sequence of chunks (concatenation is \o).  Money is an        *)
(* integer number of 10^-8 dollars, rates are 10^-5 dollars per 1000       *)
(* tokens.  A nullable column is a set with at most one element.           *)
(***************************************************************************)
EXTENDS Integers, Sequences, FiniteSets, TLC

VARIABLES
    sessions,   \* table comparison_sessions: sequence of rows, id = index
    responses,  \* table model_responses: sequence of rows, id = index
    run,        \* the invocations of startComparisonStreaming / of the coordinator
    stream,     \* stream[r][i]: the streamResponse task of run r for modelIds[i]
    writes,     \* updateModelResponse calls in flight (issued, not awaited)
    rooms,      \* socket.io rooms of the /comparison namespace: session id -> sockets
    activeSessions, \* ComparisonGateway.activeSessions: session id -> client ids
    clients,    \* the sockets: "connected", "joined", "left" or "gone"
    wire,       \* what the gateway emitted in the last step, with its receivers
    config,     \* ConfigService: the provider credentials that are set
    models,     \* LangChainService.models: the ids registered by the constructor
    api         \* the last query answered (a call that only reads) and its answer

\* the gateway's part of the state
gw == <<rooms, activeSessions, clients, wire>>

\* the registry and the queries: no step of a comparison changes them
ro == <<config, models, api>>

vars == <<sessions, responses, run, stream, writes, rooms, activeSessions, clients, wire,
          config, models, api>>

----------------------------------------------------------------------------
(* Bounds *)

MaxSessions == 1   \* sessions created
MaxRuns     == 2   \* invocations of startComparisonStreaming
MaxRows     == 3   \* responses in the store when updateSessionMetrics is called
MaxText     == 3   \* characters of a text whose tokens are estimated
MaxHistory  == 3   \* sessions created through the REST interface
MaxLoad     == 3   \* model ids requested, text increments delivered by the
                   \* providers and sockets that joined or closed, all together

----------------------------------------------------------------------------
(* Inputs *)

Users == {"u1", "u2"}

\* the sockets connected to the gateway; c1 is the one that sends start_comparison
Clients == {"c1", "c2"}

\* ids a client may request: two registered ones and one that is in the
\* default list of createComparison but not in the registry
RequestIds == {"gpt-3.5-turbo", "gpt-4", "gemini-1.5-pro"}

\* the lists of at most n ids; the client sends start_comparison only with
\* at least one selected model
ModelIdLists(n) == UNION {[1..k -> RequestIds] : k \in 1..n}

\* what the provider of a model produces: the increments of its answer
Script == <<"Rec", "ursion", " is...", "done">>

\* results of model.getNumTokens and of the clock
InputTokenCounts  == {5}
OutputTokenCounts == {8}
ResponseTimes     == {900}
ProviderErrors    == {"rate limit exceeded"}

Credentials == {"OPENAI_API_KEY", "ANTHROPIC_API_KEY", "GOOGLE_API_KEY"}

----------------------------------------------------------------------------
(* LangChainService: registry and pricing *)

\* a slip: the providers are tried in turn and only the first one whose
\* credential is set is registered
initializeModels_firstProviderOnly(creds) ==
    IF "OPENAI_API_KEY" \in creds THEN {"gpt-3.5-turbo", "gpt-4"}
    ELSE IF "ANTHROPIC_API_KEY" \in creds
         THEN {"claude-sonnet-4-20250514", "claude-3-5-haiku-20241022"}
    ELSE IF "GOOGLE_API_KEY" \in creds
         THEN {"gemini-2.5-flash-lite", "gemini-2.0-flash"}
    ELSE {}

\* langchain.service.ts 33-130: the models of each provider are registered
\* when its credential is set; creds is the set of credentials that are set
initializeModels(creds) ==
    (IF "OPENAI_API_KEY" \in creds THEN {"gpt-3.5-turbo", "gpt-4"} ELSE {})
    \cup (IF "ANTHROPIC_API_KEY" \in creds
          THEN {"claude-sonnet-4-20250514", "claude-3-5-haiku-20241022"} ELSE {})
    \cup (IF "GOOGLE_API_KEY" \in creds
          THEN {"gemini-2.5-flash-lite", "gemini-2.0-flash"} ELSE {})

ProviderOf(modelId) ==
    CASE modelId \in {"gpt-3.5-turbo", "gpt-4"} -> "openai"
      [] modelId \in {"claude-sonnet-4-20250514", "claude-3-5-haiku-20241022"} -> "anthropic"
      [] OTHER -> "google"

getAvailableModels ==
    {id \in {"gpt-3.5-turbo", "gpt-4", "claude-sonnet-4-20250514",
             "claude-3-5-haiku-20241022", "gemini-2.5-flash-lite",
             "gemini-2.0-flash"} : id \in models}

\* what every object literal inherits from Object.prototype
ObjectPrototype ==
    {"constructor", "toString", "toLocaleString", "valueOf", "hasOwnProperty",
     "isPrototypeOf", "propertyIsEnumerable", "__proto__", "__defineGetter__",
     "__defineSetter__", "__lookupGetter__", "__lookupSetter__"}

\* pricingMap[modelId] || {input: 0, output: 0}.  pricingMap is an object
\* literal, so the lookup also finds the members of Object.prototype, which
\* are truthy and are returned as they are.
getPricing(modelId) ==
    CASE modelId = "gpt-3.5-turbo"             -> [input |-> 150,  output |-> 200]
      [] modelId = "gpt-4"                     -> [input |-> 3000, output |-> 6000]
      [] modelId = "claude-sonnet-4-20250514"  -> [input |-> 300,  output |-> 1500]
      [] modelId = "claude-3-5-haiku-20241022" -> [input |-> 25,   output |-> 125]
      [] modelId = "gemini-2.5-flash-lite"     -> [input |-> 10,   output |-> 40]
      [] modelId = "gemini-2.0-flash"          -> [input |-> 10,   output |-> 40]
      [] modelId \in ObjectPrototype           -> [inherited |-> modelId]
      [] OTHER                                 -> [input |-> 0,    output |-> 0]

calculateCost(modelId, inputTokens, outputTokens) ==
    inputTokens * getPricing(modelId).input + outputTokens * getPricing(modelId).output

----------------------------------------------------------------------------
(* DatabaseService *)

OrZero(x) == IF x = {} THEN 0 ELSE CHOOSE v \in x : TRUE

RECURSIVE SumOver(_, _)
SumOver(f, S) ==
    IF S = {} THEN 0
    ELSE LET x == CHOOSE y \in S : TRUE IN f[x] + SumOver(f, S \ {x})

\* a JavaScript number that need not be whole: num / den (the quotient of
\* updateSessionMetrics is not rounded before it is stored)
Ratio(num, den) == [num |-> num, den |-> den]

\* a prompt is a string of so many characters
Prompt(length) == [type |-> "string", length |-> length]

\* "Explain recursion"
DefaultPrompt == Prompt(17)

\* what @CreateDateColumn can store in the next row: the clock does not go
\* back, and two rows made close together get the same time
Clock(tbl) ==
    IF Len(tbl) = 0 THEN {1} ELSE {tbl[Len(tbl)].createdAt, tbl[Len(tbl)].createdAt + 1}

createSession(tbl, prompt, userId, createdAt) ==
    Append(tbl, [status |-> "pending", userId |-> userId, prompt |-> prompt,
                 createdAt |-> createdAt, totalTokens |-> 0,
                 totalCost |-> 0, averageResponseTime |-> Ratio(0, 1)])

updateSessionStatus(tbl, sessionId, status) ==
    [tbl EXCEPT ![sessionId].status = status]

\* a slip: the session is looked up by its id alone
getSession_byIdOnly(tbl, sessionId, userId) ==
    {s \in {sessionId} : s \in DOMAIN tbl}

\* findOne({where: {id, userId}}): the set holding the row, or {} for null
getSession(tbl, sessionId, userId) ==
    {s \in {sessionId} : s \in DOMAIN tbl /\ tbl[s].userId = userId}

\* find({where: {userId}, order: {createdAt: "DESC"}, take, skip}): the
\* lists the store can answer with (rows of equal createdAt come in any order)
getSessions(tbl, userId, limit, offset) ==
    LET owned == {s \in DOMAIN tbl : tbl[s].userId = userId}
        n == Cardinality(owned)
        sorted == {f \in [1..n -> owned] :
                      /\ \A i, j \in 1..n : i # j => f[i] # f[j]
                      /\ \A i, j \in 1..n :
                            i < j => tbl[f[i]].createdAt >= tbl[f[j]].createdAt}
        last(k) == IF offset + limit < k THEN offset + limit ELSE k
    IN  {SubSeq(f, offset + 1, last(n)) : f \in sorted}

createModelResponse(tbl, sessionId, modelId, provider) ==
    Append(tbl, [sessionId |-> sessionId, modelId |-> modelId, provider |-> provider,
                 response |-> <<>>, status |-> "pending",
                 inputTokens |-> {}, outputTokens |-> {}, cost |-> {},
                 responseTimeMs |-> {}, errorMessage |-> {}])

updateModelResponse(tbl, responseId, updates) ==
    [tbl EXCEPT ![responseId].response = updates.response,
                ![responseId].status   = updates.status]

finalizeModelResponse(tbl, responseId, metrics) ==
    [tbl EXCEPT ![responseId].inputTokens    = {metrics.inputTokens},
                ![responseId].outputTokens   = {metrics.outputTokens},
                ![responseId].cost           = {metrics.cost},
                ![responseId].responseTimeMs = {metrics.responseTimeMs},
                ![responseId].status         = "completed"]

\* a slip: the update is keyed by the session of the row instead of the row
markResponseAsError_bySession(tbl, responseId, errorMessage) ==
    [id \in DOMAIN tbl |->
        IF tbl[id].sessionId = tbl[responseId].sessionId
        THEN [tbl[id] EXCEPT !.status = "error", !.errorMessage = {errorMessage}]
        ELSE tbl[id]]

markResponseAsError(tbl, responseId, errorMessage) ==
    [tbl EXCEPT ![responseId].status       = "error",
                ![responseId].errorMessage = {errorMessage}]

\* the find() of updateSessionMetrics: ids of the completed rows of the session
CompletedResponses(tbl, sessionId) ==
    {id \in DOMAIN tbl : tbl[id].sessionId = sessionId /\ tbl[id].status = "completed"}

\* the three reduce() calls of updateSessionMetrics over the rows found
SessionMetrics(tbl, found) ==
    [totalTokens |-> SumOver([id \in found |-> OrZero(tbl[id].inputTokens)
                                               + OrZero(tbl[id].outputTokens)], found),
     totalCost   |-> SumOver([id \in found |-> OrZero(tbl[id].cost)], found),
     averageResponseTime |->
        IF Cardinality(found) > 0
        THEN Ratio(SumOver([id \in found |-> OrZero(tbl[id].responseTimeMs)], found),
                   Cardinality(found))
        ELSE Ratio(0, 1)]

updateSessionMetricsWrite(tbl, sessionId, m) ==
    [tbl EXCEPT ![sessionId].totalTokens         = m.totalTokens,
                ![sessionId].totalCost           = m.totalCost,
                ![sessionId].averageResponseTime = m.averageResponseTime]

----------------------------------------------------------------------------
(* LangChainService.streamResponse: one task per requested model id *)

Call(type, data) == [type |-> type, data |-> data]

NoMetrics == [inputTokens |-> 0, outputTokens |-> 0, cost |-> 0, responseTimeMs |-> 0]

\* a slip: the error is reported but the stream goes on
onError_streamGoesOn(st, rmap, message) ==
    [st EXCEPT !.calls   = Append(@, Call("error", message)),
               !.error   = message,
               !.cb      = IF st.modelId \in DOMAIN rmap THEN "markError" ELSE "done",
               !.emitted = IF st.modelId \in DOMAIN rmap THEN @
                           ELSE Append(@, Call("model_error", message))]

\* the service's error callback, entered from streamResponse's catch block:
\* with a row in responseMap it awaits markResponseAsError before it calls
\* onModelError; without one it calls onModelError at once
onError(st, rmap, message) ==
    [st EXCEPT !.pc      = "resolved",
               !.calls   = Append(@, Call("error", message)),
               !.error   = message,
               !.cb      = IF st.modelId \in DOMAIN rmap THEN "markError" ELSE "done",
               !.emitted = IF st.modelId \in DOMAIN rmap THEN @
                           ELSE Append(@, Call("model_error", message))]

\* a slip: onModelComplete is called before finalizeModelResponse is awaited
onComplete_emitsFirst(st, rmap, metrics) ==
    [st EXCEPT !.pc      = "resolved",
               !.calls   = Append(@, Call("complete", "")),
               !.metrics = metrics,
               !.cb      = IF st.modelId \in DOMAIN rmap THEN "finalize" ELSE "done",
               !.emitted = Append(@, Call("model_complete", ""))]

\* the service's complete callback, entered from the end of streamResponse's try block
onComplete(st, rmap, metrics) ==
    [st EXCEPT !.pc      = "resolved",
               !.calls   = Append(@, Call("complete", "")),
               !.metrics = metrics,
               !.cb      = IF st.modelId \in DOMAIN rmap THEN "finalize" ELSE "done",
               !.emitted = IF st.modelId \in DOMAIN rmap THEN @
                           ELSE Append(@, Call("model_complete", ""))]

\* the service's chunk callback minus its database call: onModelChunk
onChunk(st, content) ==
    [st EXCEPT !.fullResponse = @ \o <<content>>,
               !.calls        = Append(@, Call("chunk", content)),
               !.emitted      = Append(@, Call("model_chunk", content))]

\* streamResponse up to its first await: an id that is not in the registry
\* throws "Model ... not found", which the catch block hands to onError
streamResponse(modelId, rmap) ==
    LET st == [modelId |-> modelId, pc |-> "streaming", fullResponse |-> <<>>,
               calls |-> <<>>, emitted |-> <<>>, cb |-> "none",
               metrics |-> NoMetrics, error |-> ""]
    IN  IF modelId \in models THEN st ELSE onError(st, rmap, "Model not found")

\* streamMultipleResponses: modelIds.map(streamResponse)
streamMultipleResponses(modelIds, rmap) ==
    [i \in 1..Len(modelIds) |-> streamResponse(modelIds[i], rmap)]

\* a slip: Promise.race instead of Promise.all
AllSettled_race(r) == \E i \in 1..Len(stream[r]) : stream[r][i].pc = "resolved"

\* Promise.all(promises) of streamMultipleResponses is settled
AllSettled(r) == \A i \in 1..Len(stream[r]) : stream[r][i].pc = "resolved"

\* f[1] + ... + f[n]
RECURSIVE Total(_, _)
Total(f, n) == IF n = 0 THEN 0 ELSE f[n] + Total(f, n - 1)

\* text increments delivered so far
TotalChunks ==
    Total([r \in 1..MaxRuns |->
              Total([i \in 1..Len(stream[r]) |-> Len(stream[r][i].fullResponse)],
                    Len(stream[r]))],
          MaxRuns)

----------------------------------------------------------------------------
(* State after construction *)

\* no query has been answered yet
NoCall == [op |-> "none"]

NoAggregates == [totalTokens |-> 0, totalCost |-> 0, averageResponseTime |-> Ratio(0, 1)]

\* error: the exception the try block of startComparisonStreaming threw;
\* rejection: the reason its promise rejected with
IdleRun == [pc |-> "idle", sessionId |-> 0, userId |-> "", modelIds |-> <<>>,
            responseMap |-> <<>>, aggregates |-> NoAggregates,
            error |-> "", rejection |-> ""]

Init ==
    /\ sessions  = <<>>
    /\ responses = <<>>
    /\ run       = [r \in 1..MaxRuns |-> IdleRun]
    /\ stream    = [r \in 1..MaxRuns |-> <<>>]
    /\ writes    = {}
    /\ rooms     = [s \in 1..MaxSessions |-> {}]
    /\ activeSessions = [s \in {} |-> {}]
    /\ clients   = [c \in Clients |-> "connected"]
    /\ wire      = <<>>
    /\ config    = Credentials
    /\ models    = initializeModels(config)
    /\ api       = NoCall

----------------------------------------------------------------------------
(* ComparisonService *)

\* createComparison: createSession; selectedModels does not reach the store.
\* User names are interchangeable, so the first session is u1's.
createComparison(userId) ==
    /\ Len(sessions) < MaxSessions
    /\ sessions = <<>> => userId = "u1"
    /\ \E createdAt \in Clock(sessions) :
          sessions' = createSession(sessions, DefaultPrompt, userId, createdAt)
    /\ UNCHANGED <<responses, run, stream, writes>>

\* model ids requested so far
Requested == Total([r \in 1..MaxRuns |-> Len(run[r].modelIds)], MaxRuns)

\* sockets that have joined a session or have closed
Engaged == Cardinality({c \in Clients : clients[c] # "connected"})

\* what is left of MaxLoad
Budget == MaxLoad - (Requested + TotalChunks + Engaged)

Runs == 1..MaxRuns
Positions == 1..MaxLoad

\* invocations that have been called and have not returned
Active == {r \in Runs : run[r].pc \notin {"idle", "resolved", "rejected"}}

\* the invocation that is made next
NextRun == {r \in Runs : run[r].pc = "idle" /\ \A q \in 1..(r - 1) : run[q].pc # "idle"}

\* the invocation a client may make now
Callable == IF Active = {} THEN NextRun ELSE {}

\* a slip: the rows are created before the session is set to in_progress
startComparisonStreaming_statusLater(r, sessionId, userId, modelIds) ==
    /\ r \in Callable
    /\ sessionId \in DOMAIN sessions
    /\ Len(modelIds) <= Budget
    /\ run' = [run EXCEPT ![r] = [IdleRun EXCEPT !.pc = "createResponses",
                                                 !.sessionId = sessionId,
                                                 !.userId = userId,
                                                 !.modelIds = modelIds]]
    /\ UNCHANGED <<sessions, responses, stream, writes>>

\* startComparisonStreaming, line 154: await updateSessionStatus(in_progress).
\* Runs are taken in order of their number, and a client starts a comparison
\* when no earlier start is still between its call and its return (the
\* callbacks and writes an earlier run left in flight go on beside the new run).
startComparisonStreaming(r, sessionId, userId, modelIds) ==
    /\ r \in Callable
    /\ sessionId \in DOMAIN sessions
    /\ Len(modelIds) <= Budget
    /\ sessions' = updateSessionStatus(sessions, sessionId, "in_progress")
    /\ run' = [run EXCEPT ![r] = [IdleRun EXCEPT !.pc = "createResponses",
                                                 !.sessionId = sessionId,
                                                 !.userId = userId,
                                                 !.modelIds = modelIds]]
    /\ UNCHANGED <<responses, stream, writes>>

\* the rows saved by modelIds.map(...createModelResponse...): one per list
\* position whose id getAvailableModels() knows; for any other id
\* model.provider throws before createModelResponse is called
RECURSIVE SavedResponses(_, _, _)
SavedResponses(tbl, sessionId, modelIds) ==
    IF modelIds = <<>> THEN tbl
    ELSE SavedResponses(
            IF Head(modelIds) \in getAvailableModels
            THEN createModelResponse(tbl, sessionId, Head(modelIds), ProviderOf(Head(modelIds)))
            ELSE tbl,
            sessionId, Tail(modelIds))

\* new Map(responses.map(r => [r.modelId, r])): the last row of each model id
\* among the rows this run created (ids above 'before'), with the in-memory
\* copy of its text
ResponseMap(tbl, before, modelIds) ==
    [m \in {modelIds[i] : i \in 1..Len(modelIds)} |->
        [id |-> CHOOSE id \in (before + 1)..Len(tbl) :
                    /\ tbl[id].modelId = m
                    /\ \A other \in (before + 1)..Len(tbl) :
                          tbl[other].modelId = m => other <= id,
         response |-> <<>>]]

\* lines 157-169: create the rows and await Promise.all; a rejected element
\* (unknown id) sends the run to the catch block while the saves of the other
\* ids still go through
createModelResponses(r) ==
    /\ run[r].pc = "createResponses"
    /\ responses' = SavedResponses(responses, run[r].sessionId, run[r].modelIds)
    /\ IF \A i \in 1..Len(run[r].modelIds) : run[r].modelIds[i] \in getAvailableModels
       THEN run' = [run EXCEPT ![r].pc = "getSession",
                               ![r].responseMap =
                                   ResponseMap(responses', Len(responses), run[r].modelIds)]
       ELSE run' = [run EXCEPT ![r].pc = "catch",
                               ![r].error = "Cannot read properties of undefined (reading 'provider')"]
    /\ UNCHANGED <<sessions, stream, writes>>

\* lines 172-174: (await getSession(sessionId, userId)).prompt throws on null;
\* otherwise streamMultipleResponses starts one streamResponse per id
startStreams(r) ==
    /\ run[r].pc = "getSession"
    /\ IF getSession(sessions, run[r].sessionId, run[r].userId) = {}
       THEN /\ run' = [run EXCEPT ![r].pc = "catch",
                                    ![r].error = "Cannot read properties of null (reading 'prompt')"]
            /\ UNCHANGED stream
       ELSE /\ run' = [run EXCEPT ![r].pc = "streaming"]
            /\ stream' = [stream EXCEPT ![r] =
                             streamMultipleResponses(run[r].modelIds, run[r].responseMap)]
    /\ UNCHANGED <<sessions, responses, writes>>

\* lines 175-188 and langchain.service.ts 247-253: the provider yields an
\* increment; streamResponse appends it and calls onChunk; the service's
\* chunk callback issues updateModelResponse with the text accumulated in
\* responseMap (not awaited), stores that text in the map and calls onModelChunk
providerChunk(r, i) ==
    /\ i \in 1..Len(stream[r])
    /\ stream[r][i].pc = "streaming"
    /\ Budget > 0
    /\ Len(stream[r][i].fullResponse) < Len(Script)
    /\ LET content == Script[Len(stream[r][i].fullResponse) + 1]
           modelId == stream[r][i].modelId
       IN  /\ stream' = [stream EXCEPT ![r][i] = onChunk(@, content)]
           /\ IF modelId \in DOMAIN run[r].responseMap
              THEN LET response == run[r].responseMap[modelId]
                       updatedResponse == response.response \o <<content>>
                   IN  /\ writes' = writes \cup
                              {[responseId |-> response.id,
                                updates |-> [response |-> updatedResponse,
                                             status |-> "streaming"]]}
                       /\ run' = [run EXCEPT ![r].responseMap[modelId].response =
                                                 updatedResponse]
              ELSE UNCHANGED <<writes, run>>
    /\ UNCHANGED <<sessions, responses>>

\* langchain.service.ts 255-286: the provider's stream ends; token counts,
\* time and cost are taken and onComplete is called (its promise is dropped)
providerEnd(r, i) ==
    /\ i \in 1..Len(stream[r])
    /\ stream[r][i].pc = "streaming"
    /\ \E inputTokens \in InputTokenCounts, outputTokens \in OutputTokenCounts,
          responseTime \in ResponseTimes :
          stream' = [stream EXCEPT ![r][i] =
              onComplete(@, run[r].responseMap,
                         [inputTokens |-> inputTokens, outputTokens |-> outputTokens,
                          cost |-> calculateCost(stream[r][i].modelId,
                                                 inputTokens, outputTokens),
                          responseTimeMs |-> responseTime])]
    /\ UNCHANGED <<sessions, responses, run, writes>>

\* langchain.service.ts 291-294: model.stream or the iteration throws;
\* onError(error.message) is called (its promise is dropped)
providerFail(r, i) ==
    /\ i \in 1..Len(stream[r])
    /\ stream[r][i].pc = "streaming"
    /\ \E message \in ProviderErrors :
          stream' = [stream EXCEPT ![r][i] = onError(@, run[r].responseMap, message)]
    /\ UNCHANGED <<sessions, responses, run, writes>>

\* an updateModelResponse in flight reaches the store
chunkWriteDone(w) ==
    /\ w \in writes
    /\ responses' = updateModelResponse(responses, w.responseId, w.updates)
    /\ writes' = writes \ {w}
    /\ UNCHANGED <<sessions, run, stream>>

\* lines 189-214: the awaited finalizeModelResponse / markResponseAsError of a
\* complete / error callback reaches the store and the callback goes on to
\* onModelComplete / onModelError
terminalWriteDone(r, i) ==
    /\ i \in 1..Len(stream[r])
    /\ stream[r][i].cb \in {"finalize", "markError"}
    /\ LET st == stream[r][i]
           responseId == run[r].responseMap[st.modelId].id
       IN  IF st.cb = "finalize"
           THEN /\ responses' = finalizeModelResponse(responses, responseId, st.metrics)
                /\ stream' = [stream EXCEPT ![r][i].cb = "done",
                                            ![r][i].emitted =
                                                Append(@, Call("model_complete", ""))]
           ELSE /\ responses' = markResponseAsError(responses, responseId, st.error)
                /\ stream' = [stream EXCEPT ![r][i].cb = "done",
                                            ![r][i].emitted =
                                                Append(@, Call("model_error", st.error))]
    /\ UNCHANGED <<sessions, run, writes>>

\* a slip: the join waits for every model to complete
join_onlyOnSuccess(r) ==
    /\ run[r].pc = "streaming"
    /\ AllSettled(r)
    /\ \A i \in 1..Len(stream[r]) : stream[r][i].error = ""
    /\ run' = [run EXCEPT ![r].pc = "joined"]
    /\ UNCHANGED <<sessions, responses, stream, writes>>

\* langchain.service.ts 318: await Promise.all(promises) returns and
\* streamMultipleResponses resolves
join(r) ==
    /\ run[r].pc = "streaming"
    /\ AllSettled(r)
    /\ run' = [run EXCEPT ![r].pc = "joined"]
    /\ UNCHANGED <<sessions, responses, stream, writes>>

\* database.module.ts 182-206: the find() of updateSessionMetrics and the sums
metricsRead(r) ==
    /\ run[r].pc = "joined"
    /\ run' = [run EXCEPT ![r].pc = "saveSessionMetrics",
                          ![r].aggregates =
                              SessionMetrics(responses,
                                  CompletedResponses(responses, run[r].sessionId))]
    /\ UNCHANGED <<sessions, responses, stream, writes>>

\* database.module.ts 212-216: the update() of updateSessionMetrics
metricsWrite(r) ==
    /\ run[r].pc = "saveSessionMetrics"
    /\ sessions' = updateSessionMetricsWrite(sessions, run[r].sessionId, run[r].aggregates)
    /\ run' = [run EXCEPT ![r].pc = "complete"]
    /\ UNCHANGED <<responses, stream, writes>>

\* a slip: a run in which no response completed is recorded as failed
setCompleted_failedWhenNoneCompleted(r) ==
    /\ run[r].pc = "complete"
    /\ sessions' = updateSessionStatus(sessions, run[r].sessionId,
                       IF CompletedResponses(responses, run[r].sessionId) = {}
                       THEN "failed" ELSE "completed")
    /\ run' = [run EXCEPT ![r].pc = "resolved"]
    /\ UNCHANGED <<responses, stream, writes>>

\* line 219: updateSessionStatus(completed); the call resolves
setCompleted(r) ==
    /\ run[r].pc = "complete"
    /\ sessions' = updateSessionStatus(sessions, run[r].sessionId, "completed")
    /\ run' = [run EXCEPT ![r].pc = "resolved"]
    /\ UNCHANGED <<responses, stream, writes>>

\* a slip: the catch block rethrows without recording the failure
catch_notRecorded(r) ==
    /\ run[r].pc = "catch"
    /\ run' = [run EXCEPT ![r].pc = "rejected", ![r].rejection = run[r].error]
    /\ UNCHANGED <<sessions, responses, stream, writes>>

\* lines 220-227: updateSessionStatus(failed); throw error: the call rejects
\* with the exception that was caught
catch(r) ==
    /\ run[r].pc = "catch"
    /\ sessions' = updateSessionStatus(sessions, run[r].sessionId, "failed")
    /\ run' = [run EXCEPT ![r].pc = "rejected", ![r].rejection = run[r].error]
    /\ UNCHANGED <<responses, stream, writes>>


Next ==
    \/ \E u \in Users : createComparison(u) /\ UNCHANGED <<gw, ro>>
    \/ \E r \in Callable : \E s \in DOMAIN sessions, u \in Users, m \in ModelIdLists(Budget) :
          startComparisonStreaming(r, s, u, m) /\ UNCHANGED <<gw, ro>>
    \/ \E r \in Runs : createModelResponses(r) /\ UNCHANGED <<gw, ro>>
    \/ \E r \in Runs : startStreams(r) /\ UNCHANGED <<gw, ro>>
    \/ \E r \in Runs, i \in Positions : providerChunk(r, i) /\ UNCHANGED <<gw, ro>>
    \/ \E r \in Runs, i \in Positions : providerEnd(r, i) /\ UNCHANGED <<gw, ro>>
    \/ \E r \in Runs, i \in Positions : providerFail(r, i) /\ UNCHANGED <<gw, ro>>
    \/ \E w \in writes : chunkWriteDone(w) /\ UNCHANGED <<gw, ro>>
    \/ \E r \in Runs, i \in Positions : terminalWriteDone(r, i) /\ UNCHANGED <<gw, ro>>
    \/ \E r \in Runs : join(r) /\ UNCHANGED <<gw, ro>>
    \/ \E r \in Runs : metricsRead(r) /\ UNCHANGED <<gw, ro>>
    \/ \E r \in Runs : metricsWrite(r) /\ UNCHANGED <<gw, ro>>
    \/ \E r \in Runs : setCompleted(r) /\ UNCHANGED <<gw, ro>>
    \/ \E r \in Runs : catch(r) /\ UNCHANGED <<gw, ro>>

Spec == Init /\ [][Next]_vars

----------------------------------------------------------------------------
(* The coordinator on its own: streamMultipleResponses called with callbacks
   that only pass the events on (no rows, responseMap empty) *)

fanOut(r, modelIds) ==
    /\ r \in NextRun
    /\ Len(modelIds) <= Budget
    /\ run' = [run EXCEPT ![r] = [IdleRun EXCEPT !.pc = "streaming",
                                                 !.modelIds = modelIds]]
    /\ stream' = [stream EXCEPT ![r] = streamMultipleResponses(modelIds, <<>>)]
    /\ UNCHANGED <<sessions, responses, writes>>

NextFanout ==
    \/ \E r \in NextRun : \E m \in ModelIdLists(Budget) : fanOut(r, m) /\ UNCHANGED <<gw, ro>>
    \/ \E r \in Runs, i \in Positions : providerChunk(r, i) /\ UNCHANGED <<gw, ro>>
    \/ \E r \in Runs, i \in Positions : providerEnd(r, i) /\ UNCHANGED <<gw, ro>>
    \/ \E r \in Runs, i \in Positions : providerFail(r, i) /\ UNCHANGED <<gw, ro>>
    \/ \E r \in Runs : join(r) /\ UNCHANGED <<gw, ro>>

SpecFanout == Init /\ [][NextFanout]_vars

----------------------------------------------------------------------------
(* One comparison: a session is created and startComparisonStreaming is called
   on it once, by its owner or by another user *)

NextOneRun ==
    \/ sessions = <<>> /\ createComparison("u1") /\ UNCHANGED <<gw, ro>>
    \/ \E r \in Callable \cap {1} : \E u \in Users, m \in ModelIdLists(Budget) :
          startComparisonStreaming(r, 1, u, m) /\ UNCHANGED <<gw, ro>>
    \/ createModelResponses(1) /\ UNCHANGED <<gw, ro>>
    \/ startStreams(1) /\ UNCHANGED <<gw, ro>>
    \/ \E i \in Positions : providerChunk(1, i) /\ UNCHANGED <<gw, ro>>
    \/ \E i \in Positions : providerEnd(1, i) /\ UNCHANGED <<gw, ro>>
    \/ \E i \in Positions : providerFail(1, i) /\ UNCHANGED <<gw, ro>>
    \/ \E w \in writes : chunkWriteDone(w) /\ UNCHANGED <<gw, ro>>
    \/ \E i \in Positions : terminalWriteDone(1, i) /\ UNCHANGED <<gw, ro>>
    \/ join(1) /\ UNCHANGED <<gw, ro>>
    \/ metricsRead(1) /\ UNCHANGED <<gw, ro>>
    \/ metricsWrite(1) /\ UNCHANGED <<gw, ro>>
    \/ setCompleted(1) /\ UNCHANGED <<gw, ro>>
    \/ catch(1) /\ UNCHANGED <<gw, ro>>

SpecOneRun == Init /\ [][NextOneRun]_vars

\* the steps the runtime takes on its own once the call is made: the
\* continuations of awaited store calls, the store calls in flight, and the
\* end of a provider invocation (by completion or by error)
OneRunProgress ==
    \/ createModelResponses(1) /\ UNCHANGED <<gw, ro>>
    \/ startStreams(1) /\ UNCHANGED <<gw, ro>>
    \/ \E i \in Positions : providerEnd(1, i) /\ UNCHANGED <<gw, ro>>
    \/ \E i \in Positions : providerFail(1, i) /\ UNCHANGED <<gw, ro>>
    \/ \E w \in writes : chunkWriteDone(w) /\ UNCHANGED <<gw, ro>>
    \/ \E i \in Positions : terminalWriteDone(1, i) /\ UNCHANGED <<gw, ro>>
    \/ join(1) /\ UNCHANGED <<gw, ro>>
    \/ metricsRead(1) /\ UNCHANGED <<gw, ro>>
    \/ metricsWrite(1) /\ UNCHANGED <<gw, ro>>
    \/ setCompleted(1) /\ UNCHANGED <<gw, ro>>
    \/ catch(1) /\ UNCHANGED <<gw, ro>>

\* one comparison in which every provider invocation terminates and every
\* store call returns
FairOneRun == SpecOneRun /\ WF_vars(OneRunProgress)

----------------------------------------------------------------------------
(* ComparisonGateway: the relay between a run and the observers of its
   session.  With the in-memory adapter client.join and client.leave change
   the room at once, so each handler below runs in one step; on a disconnect
   socket.io takes the socket out of its rooms before handleDisconnect runs. *)

Emission(event, sessionId, modelId, data, to) ==
    [event |-> event, sessionId |-> sessionId, modelId |-> modelId, data |-> data, to |-> to]

\* this.server.to(sessionId).emit(event, ...): received by the sockets that
\* are in the room now
toRoom(sessionId, event, modelId, data) ==
    Emission(event, sessionId, modelId, data, rooms[sessionId])

\* client.emit(event, ...): received by the socket if it is still connected
toClient(c, event, sessionId, data) ==
    Emission(event, sessionId, "", data, IF clients[c] # "gone" THEN {c} ELSE {})

\* activeSessions after has/set/get(sessionId).add(client.id), lines 83-86
activeSessionsAdd(map, sessionId, c) ==
    [k \in DOMAIN map \cup {sessionId} |->
        IF k = sessionId
        THEN (IF sessionId \in DOMAIN map THEN map[sessionId] ELSE {}) \cup {c}
        ELSE map[k]]

\* a slip: the entry of a session is kept when its last client is deleted
activeSessionsDelete_keepsEntry(map, sessionId, c) ==
    IF sessionId \notin DOMAIN map THEN map
    ELSE [map EXCEPT ![sessionId] = @ \ {c}]

\* activeSessions after lines 112-118: delete the client from the session's
\* set and delete the entry when the set is empty
activeSessionsDelete(map, sessionId, c) ==
    IF sessionId \notin DOMAIN map THEN map
    ELSE IF map[sessionId] \ {c} = {}
         THEN [k \in DOMAIN map \ {sessionId} |-> map[k]]
         ELSE [map EXCEPT ![sessionId] = @ \ {c}]

\* activeSessions after the loop of handleDisconnect, lines 58-63
activeSessionsDeleteAll(map, c) ==
    [k \in {k \in DOMAIN map : map[k] \ {c} # {}} |-> map[k] \ {c}]

\* a slip: the events emitted so far are replayed to the socket that joins
handleJoinSession_replay(c, sessionId) ==
    /\ clients[c] = "connected"
    /\ sessionId \in DOMAIN sessions
    /\ Budget > 0
    /\ rooms' = [rooms EXCEPT ![sessionId] = @ \cup {c}]
    /\ activeSessions' = activeSessionsAdd(activeSessions, sessionId, c)
    /\ clients' = [clients EXCEPT ![c] = "joined"]
    /\ wire' = [k \in 1..Len(stream[1]) |->
                   Emission("model_chunk", sessionId, stream[1][k].modelId, "", {c})]
                \o <<toClient(c, "session_joined", sessionId, "")>>
    /\ UNCHANGED <<sessions, responses, run, stream, writes, ro>>

\* handleJoinSession, lines 70-96.  A socket joins the session it was opened
\* for once; the id is one that createComparison returned.
handleJoinSession(c, sessionId) ==
    /\ clients[c] = "connected"
    /\ sessionId \in DOMAIN sessions
    /\ Budget > 0
    /\ rooms' = [rooms EXCEPT ![sessionId] = @ \cup {c}]
    /\ activeSessions' = activeSessionsAdd(activeSessions, sessionId, c)
    /\ clients' = [clients EXCEPT ![c] = "joined"]
    /\ wire' = <<toClient(c, "session_joined", sessionId, "")>>
    /\ UNCHANGED <<sessions, responses, run, stream, writes, ro>>

\* handleLeaveSession, lines 102-122, of a socket that had joined
handleLeaveSession(c, sessionId) ==
    /\ clients[c] = "joined"
    /\ c \in rooms[sessionId]
    /\ rooms' = [rooms EXCEPT ![sessionId] = @ \ {c}]
    /\ activeSessions' = activeSessionsDelete(activeSessions, sessionId, c)
    /\ clients' = [clients EXCEPT ![c] = "left"]
    /\ wire' = <<toClient(c, "session_left", sessionId, "")>>
    /\ UNCHANGED <<sessions, responses, run, stream, writes, ro>>

\* a slip: the disconnect of one socket closes the rooms it was in
handleDisconnect_closesRooms(c) ==
    /\ clients[c] \in {"connected", "joined"}
    /\ clients[c] = "connected" => Budget > 0
    /\ rooms' = [s \in DOMAIN rooms |-> IF c \in rooms[s] THEN {} ELSE rooms[s]]
    /\ activeSessions' = [k \in {k \in DOMAIN activeSessions : c \notin activeSessions[k]} |->
                              activeSessions[k]]
    /\ clients' = [clients EXCEPT ![c] = "gone"]
    /\ wire' = <<>>
    /\ UNCHANGED <<sessions, responses, run, stream, writes, ro>>

\* the socket closes: it is taken out of its rooms, then handleDisconnect,
\* lines 54-64
handleDisconnect(c) ==
    /\ clients[c] \in {"connected", "joined"}
    /\ clients[c] = "connected" => Budget > 0
    /\ rooms' = [s \in DOMAIN rooms |-> rooms[s] \ {c}]
    /\ activeSessions' = activeSessionsDeleteAll(activeSessions, c)
    /\ clients' = [clients EXCEPT ![c] = "gone"]
    /\ wire' = <<>>
    /\ UNCHANGED <<sessions, responses, run, stream, writes, ro>>

\* the calls of onModelChunk / onModelComplete / onModelError that stream i
\* of run r received in this step
NewEvents(r, i) ==
    LET before == IF i \in 1..Len(stream[r]) THEN Len(stream[r][i].emitted) ELSE 0
    IN  SubSeq(stream'[r][i].emitted, before + 1, Len(stream'[r][i].emitted))

\* lines 150-194: each of them is emitted to the room of the session
RECURSIVE Relay(_, _)
Relay(r, n) ==
    IF n = 0 THEN <<>>
    ELSE Relay(r, n - 1) \o
         [k \in 1..Len(NewEvents(r, n)) |->
             toRoom(run[r].sessionId, NewEvents(r, n)[k].type,
                    stream'[r][n].modelId, NewEvents(r, n)[k].data)]

\* handleStartComparison, lines 128-148: the call of startComparisonStreaming
handleStartComparison(r, sessionId, userId, modelIds) ==
    /\ clients["c1"] # "gone"
    /\ startComparisonStreaming(r, sessionId, userId, modelIds)
    /\ wire' = <<>>
    /\ UNCHANGED <<rooms, activeSessions, clients, ro>>

\* a step of the service inside handleStartComparison, with the events its
\* callbacks hand to the gateway
relay(r, step) ==
    /\ step
    /\ wire' = Relay(r, Len(stream'[r]))
    /\ UNCHANGED <<rooms, activeSessions, clients, ro>>

\* a slip: comparison_error is emitted to the room of the session
comparisonError_toRoom(r) ==
    /\ catch(r)
    /\ wire' = <<toRoom(run[r].sessionId, "comparison_error", "", run[r].error)>>
    /\ UNCHANGED <<rooms, activeSessions, clients, ro>>

\* lines 202-212: startComparisonStreaming rejects; comparison_error is
\* emitted to the socket that sent start_comparison
comparisonError(r) ==
    /\ catch(r)
    /\ wire' = <<toClient("c1", "comparison_error", run[r].sessionId, run[r].error)>>
    /\ UNCHANGED <<rooms, activeSessions, clients, ro>>

\* lines 197-201: startComparisonStreaming resolves; comparison_complete is
\* emitted to the room
comparisonComplete(r) ==
    /\ setCompleted(r)
    /\ wire' = <<toRoom(run[r].sessionId, "comparison_complete", "", "")>>
    /\ UNCHANGED <<rooms, activeSessions, clients, ro>>

\* one session, its observers and one start_comparison
NextGateway ==
    \/ sessions = <<>> /\ createComparison("u1") /\ wire' = <<>>
          /\ UNCHANGED <<rooms, activeSessions, clients, ro>>
    \/ \E c \in Clients : handleJoinSession(c, 1)
    \/ \E c \in Clients : handleLeaveSession(c, 1)
    \/ \E c \in Clients : handleDisconnect(c)
    \/ \E r \in Callable \cap {1} : \E u \in Users, m \in ModelIdLists(Budget) :
          handleStartComparison(r, 1, u, m)
    \/ relay(1, createModelResponses(1))
    \/ relay(1, startStreams(1))
    \/ \E i \in Positions : relay(1, providerChunk(1, i))
    \/ \E i \in Positions : relay(1, providerEnd(1, i))
    \/ \E i \in Positions : relay(1, providerFail(1, i))
    \/ \E w \in writes : relay(1, chunkWriteDone(w))
    \/ \E i \in Positions : relay(1, terminalWriteDone(1, i))
    \/ relay(1, join(1))
    \/ relay(1, metricsRead(1))
    \/ relay(1, metricsWrite(1))
    \/ comparisonComplete(1)
    \/ comparisonError(1)

SpecGateway == Init /\ [][NextGateway]_vars

\* the steps of handleStartComparison that the runtime takes on its own
GatewayProgress ==
    \/ relay(1, createModelResponses(1))
    \/ relay(1, startStreams(1))
    \/ \E i \in Positions : relay(1, providerEnd(1, i))
    \/ \E i \in Positions : relay(1, providerFail(1, i))
    \/ \E w \in writes : relay(1, chunkWriteDone(w))
    \/ \E i \in Positions : relay(1, terminalWriteDone(1, i))
    \/ relay(1, join(1))
    \/ relay(1, metricsRead(1))
    \/ relay(1, metricsWrite(1))
    \/ comparisonComplete(1)
    \/ comparisonError(1)

\* the same, when every provider invocation terminates and every store call
\* returns
FairGateway == SpecGateway /\ WF_vars(GatewayProgress)

----------------------------------------------------------------------------
(* The same with a provider that hangs: an invocation of one of the models
   may deliver increments but never ends and never throws.  A run that does
   not request that model goes on as before. *)

\* the model whose provider hangs
HangingModel == "gpt-4"

\* stream i of run 1 is an invocation of the model that hangs
Hangs(i) == i \in 1..Len(stream[1]) /\ stream[1][i].modelId = HangingModel

NextStalled ==
    \/ sessions = <<>> /\ createComparison("u1") /\ wire' = <<>>
          /\ UNCHANGED <<rooms, activeSessions, clients, ro>>
    \/ \E c \in Clients : handleJoinSession(c, 1)
    \/ \E c \in Clients : handleLeaveSession(c, 1)
    \/ \E c \in Clients : handleDisconnect(c)
    \/ \E r \in Callable \cap {1} : \E u \in Users, m \in ModelIdLists(Budget) :
          handleStartComparison(r, 1, u, m)
    \/ relay(1, createModelResponses(1))
    \/ relay(1, startStreams(1))
    \/ \E i \in Positions : relay(1, providerChunk(1, i))
    \/ \E i \in Positions : ~Hangs(i) /\ relay(1, providerEnd(1, i))
    \/ \E i \in Positions : ~Hangs(i) /\ relay(1, providerFail(1, i))
    \/ \E w \in writes : relay(1, chunkWriteDone(w))
    \/ \E i \in Positions : relay(1, terminalWriteDone(1, i))
    \/ relay(1, join(1))
    \/ relay(1, metricsRead(1))
    \/ relay(1, metricsWrite(1))
    \/ comparisonComplete(1)
    \/ comparisonError(1)

SpecStalled == Init /\ [][NextStalled]_vars

\* the steps the runtime takes on its own: every other provider invocation
\* terminates and every store call returns
StalledProgress ==
    \/ relay(1, createModelResponses(1))
    \/ relay(1, startStreams(1))
    \/ \E i \in Positions : ~Hangs(i) /\ relay(1, providerEnd(1, i))
    \/ \E i \in Positions : ~Hangs(i) /\ relay(1, providerFail(1, i))
    \/ \E w \in writes : relay(1, chunkWriteDone(w))
    \/ \E i \in Positions : relay(1, terminalWriteDone(1, i))
    \/ relay(1, join(1))
    \/ relay(1, metricsRead(1))
    \/ relay(1, metricsWrite(1))
    \/ comparisonComplete(1)
    \/ comparisonError(1)

FairStalled == SpecStalled /\ WF_vars(StalledProgress)

----------------------------------------------------------------------------
(* DatabaseService.updateSessionMetrics on its own: the store holds two
   sessions and up to MaxRows responses left by earlier comparisons, and the
   function is called for either session with no other call in flight. *)

\* responseTimeMs of the responses that earlier comparisons finalized
StoredResponseTimes == {900, 1101}

\* a response as earlier comparisons can have left it: never finalized
\* (pending, streaming or error), or finalized (completed, or put back to
\* streaming by a chunk write that landed late)
StoredRows ==
    LET row(sessionId, status, t, msg) ==
            [sessionId |-> sessionId, modelId |-> "gpt-3.5-turbo", provider |-> "openai",
             response |-> <<>>, status |-> status,
             inputTokens  |-> IF t = {} THEN {} ELSE {5},
             outputTokens |-> IF t = {} THEN {} ELSE {8},
             cost         |-> IF t = {} THEN {} ELSE {calculateCost("gpt-3.5-turbo", 5, 8)},
             responseTimeMs |-> t, errorMessage |-> msg]
    IN  UNION { { row(s, "pending", {}, {}), row(s, "streaming", {}, {}),
                  row(s, "error", {}, {"rate limit exceeded"}) }
                \cup { row(s, st, {t}, {}) : st \in {"completed", "streaming"},
                                             t \in StoredResponseTimes }
              : s \in 1..2 }

\* what an earlier updateSessionMetrics stored in a session
StoredAggregates ==
    {NoAggregates, [totalTokens |-> 13, totalCost |-> calculateCost("gpt-3.5-turbo", 5, 8),
                    averageResponseTime |-> Ratio(700, 1)]}

InitMetrics ==
    /\ \E m \in StoredAggregates :
          sessions = [s \in 1..2 |->
                         [status |-> "in_progress", userId |-> "u1",
                          prompt |-> DefaultPrompt, createdAt |-> s,
                          totalTokens |-> m.totalTokens, totalCost |-> m.totalCost,
                          averageResponseTime |-> m.averageResponseTime]]
    /\ responses \in UNION {[1..n -> StoredRows] : n \in 0..MaxRows}
    /\ run       = [r \in 1..MaxRuns |-> IdleRun]
    /\ stream    = [r \in 1..MaxRuns |-> <<>>]
    /\ writes    = {}
    /\ rooms     = [s \in 1..MaxSessions |-> {}]
    /\ activeSessions = [s \in {} |-> {}]
    /\ clients   = [c \in Clients |-> "connected"]
    /\ wire      = <<>>
    /\ config    = Credentials
    /\ models    = initializeModels(config)
    /\ api       = NoCall

\* a slip: the mean is taken over every response of the session
updateSessionMetrics_overAllRows(sessionId) ==
    /\ sessionId \in DOMAIN sessions
    /\ sessions' = updateSessionMetricsWrite(sessions, sessionId,
                       SessionMetrics(responses,
                           {id \in DOMAIN responses : responses[id].sessionId = sessionId}))
    /\ UNCHANGED <<responses, run, stream, writes, gw, ro>>

\* database.module.ts 181-221: find the completed responses of the session,
\* reduce them, update the session
updateSessionMetrics(sessionId) ==
    /\ sessionId \in DOMAIN sessions
    /\ sessions' = updateSessionMetricsWrite(sessions, sessionId,
                       SessionMetrics(responses, CompletedResponses(responses, sessionId)))
    /\ UNCHANGED <<responses, run, stream, writes, gw, ro>>

NextMetrics == \E sessionId \in 1..2 : updateSessionMetrics(sessionId)

SpecMetrics == InitMetrics /\ [][NextMetrics]_vars

----------------------------------------------------------------------------
(* LangChainService on its own: the service is constructed under any
   combination of provider credentials and its registry, pricing and token
   estimate are queried. *)

\* a text is a sequence of characters; "a" stands for any character that is
\* not white space
Texts == UNION {[1..n -> {"a", " "}] : n \in 0..MaxText}

\* text.trim()
RECURSIVE trim(_)
trim(text) ==
    IF text = <<>> THEN <<>>
    ELSE IF Head(text) = " " THEN trim(Tail(text))
    ELSE IF text[Len(text)] = " " THEN trim(SubSeq(text, 1, Len(text) - 1))
    ELSE text

\* text.split(/\s+/).length for a text without leading or trailing white
\* space: one more than the number of runs of white space ("" gives [""])
splitLength(text) ==
    1 + Cardinality({k \in 1..Len(text) : text[k] = " " /\ text[k + 1] # " "})

\* Math.ceil(num / den) for num >= 0, den > 0
ceil(num, den) == (num + den - 1) \div den

Max(a, b) == IF a >= b THEN a ELSE b

\* langchain.service.ts 371-394
estimateTokens(text) ==
    IF Len(text) = 0 THEN 0
    ELSE LET words == splitLength(trim(text))
             characters == Len(text)
             wordBasedTokens == ceil(words * 13, 10)
             charBasedTokens == ceil(characters * 2, 7)
             estimatedTokens == Max(wordBasedTokens, charBasedTokens)
         IN  Max(estimatedTokens, 1)

\* ids a caller may ask the pricing of: the listed ones, ids that are not
\* listed, and names that every object has
PricingIds ==
    {"gpt-3.5-turbo", "gpt-4", "claude-sonnet-4-20250514", "claude-3-5-haiku-20241022",
     "gemini-2.5-flash-lite", "gemini-2.0-flash", "gemini-1.5-pro", "m1", "",
     "constructor", "toString"}

InitLangChain ==
    /\ sessions  = <<>>
    /\ responses = <<>>
    /\ run       = [r \in 1..MaxRuns |-> IdleRun]
    /\ stream    = [r \in 1..MaxRuns |-> <<>>]
    /\ writes    = {}
    /\ rooms     = [s \in 1..MaxSessions |-> {}]
    /\ activeSessions = [s \in {} |-> {}]
    /\ clients   = [c \in Clients |-> "connected"]
    /\ wire      = <<>>
    /\ config    \in SUBSET Credentials
    /\ models    = initializeModels(config)
    /\ api       = NoCall

\* a query: the state of the service and of the store stays as it is
answer(op, arg, result) ==
    /\ api' = [op |-> op, arg |-> arg, result |-> result]
    /\ UNCHANGED <<sessions, responses, run, stream, writes, gw, config, models>>

NextLangChain ==
    \/ answer("getAvailableModels", "", getAvailableModels)
    \/ \E modelId \in PricingIds : answer("getPricing", modelId, getPricing(modelId))
    \/ \E text \in Texts : answer("estimateTokens", text, estimateTokens(text))

SpecLangChain == InitLangChain /\ [][NextLangChain]_vars

----------------------------------------------------------------------------
(* ComparisonController: the REST requests of authenticated users.  A session
   is created by POST /comparison and read by GET /comparison/:sessionId and
   GET /comparison. *)

MaxPromptLength == 10000

\* what a request can carry as prompt: nothing, or a string of a length at
\* the limits or just outside them
Bodies ==
    {[type |-> "undefined", length |-> 0]}
    \cup {Prompt(n) : n \in {0, 1, MaxPromptLength, MaxPromptLength + 1}}

\* create-comparison.dto.ts 13-16: the messages of the constraints that fail
validate(prompt) ==
    (IF prompt.type # "string" THEN {"prompt must be a string"} ELSE {})
    \cup (IF prompt.type # "string" \/ prompt.length < 1
          THEN {"Prompt cannot be empty"} ELSE {})
    \cup (IF prompt.type # "string" \/ prompt.length > MaxPromptLength
          THEN {"Prompt cannot exceed 10,000 characters"} ELSE {})

\* a slip: the upper limit is not checked
createComparisonRequest_noUpperLimit(prompt, userId) ==
    IF prompt.type = "string" /\ prompt.length >= 1
    THEN /\ Len(sessions) < MaxHistory
         /\ \E createdAt \in Clock(sessions) :
               sessions' = createSession(sessions, prompt, userId, createdAt)
         /\ api' = [op |-> "createComparison", arg |-> [prompt |-> prompt, userId |-> userId],
                    result |-> [sessionId |-> Len(sessions'),
                                status |-> sessions'[Len(sessions')].status]]
         /\ UNCHANGED <<responses, run, stream, writes, gw, config, models>>
    ELSE answer("createComparison", [prompt |-> prompt, userId |-> userId],
                [statusCode |-> 400, message |-> validate(prompt)])

\* jwt.strategy.ts 139-149 with comparison.service.ts 31-59: the body goes
\* through the ValidationPipe, which answers 400 before the handler runs;
\* otherwise the handler creates the session and returns it
createComparisonRequest(prompt, userId) ==
    IF validate(prompt) = {}
    THEN /\ Len(sessions) < MaxHistory
         /\ \E createdAt \in Clock(sessions) :
               sessions' = createSession(sessions, prompt, userId, createdAt)
         /\ api' = [op |-> "createComparison", arg |-> [prompt |-> prompt, userId |-> userId],
                    result |-> [sessionId |-> Len(sessions'),
                                status |-> sessions'[Len(sessions')].status]]
         /\ UNCHANGED <<responses, run, stream, writes, gw, config, models>>
    ELSE answer("createComparison", [prompt |-> prompt, userId |-> userId],
                [statusCode |-> 400, message |-> validate(prompt)])

\* comparison.service.ts 65-95
getComparison(sessionId, userId) ==
    LET session == getSession(sessions, sessionId, userId)
    IN  answer("getComparison", [sessionId |-> sessionId, userId |-> userId],
               IF session = {}
               THEN [error |-> "Session not found"]
               ELSE [id |-> sessionId,
                     session |-> sessions[sessionId],
                     responses |-> {id \in DOMAIN responses :
                                       responses[id].sessionId = sessionId}])

\* comparison.service.ts 101-123: the ids of the summaries, in their order
getComparisonHistory(userId, limit, offset) ==
    \E list \in getSessions(sessions, userId, limit, offset) :
        answer("getComparisonHistory",
               [userId |-> userId, limit |-> limit, offset |-> offset], list)

NextRest ==
    \/ \E prompt \in Bodies, userId \in Users : createComparisonRequest(prompt, userId)
    \/ \E sessionId \in 1..MaxHistory, userId \in Users : getComparison(sessionId, userId)
    \/ \E userId \in Users, limit \in {1, 20}, offset \in {0, 1} :
          getComparisonHistory(userId, limit, offset)

SpecRest == Init /\ [][NextRest]_vars

----------------------------------------------------------------------------
(* Vocabulary of the properties *)

StreamsOf(r) == 1..Len(stream[r])

IsTerminalCall(c) == c.type \in {"complete", "error"}

HasTerminal(st) == st.calls # <<>> /\ IsTerminalCall(st.calls[Len(st.calls)])

Completed(st) == st.calls # <<>> /\ st.calls[Len(st.calls)].type = "complete"

Errored(st) == st.calls # <<>> /\ st.calls[Len(st.calls)].type = "error"

\* the row the callbacks of stream i of run r write to
RowOf(r, i) == run[r].responseMap[stream[r][i].modelId].id

Occurrences(modelIds, m) == Cardinality({k \in 1..Len(modelIds) : modelIds[k] = m})

TerminalStatus == {"completed", "error"}

ResponsesOf(tbl, sessionId) == {id \in DOMAIN tbl : tbl[id].sessionId = sessionId}

----------------------------------------------------------------------------
(* C1 *)

\* C1: at the step in which startComparisonStreaming(S, user, M) resolves,
\* every id in M has a stored ModelResponse of S whose status is completed or
\* error, and no stored response of S is pending or streaming.
C1_AllTerminalWhenResolved ==
    [][\A r \in Runs :
          (run[r].pc # "resolved" /\ run'[r].pc = "resolved") =>
             /\ \A k \in 1..Len(run[r].modelIds) :
                   \E id \in ResponsesOf(responses', run[r].sessionId) :
                       /\ responses'[id].modelId = run[r].modelIds[k]
                       /\ responses'[id].status \in TerminalStatus
             /\ \A id \in ResponsesOf(responses', run[r].sessionId) :
                   responses'[id].status \in TerminalStatus]_vars

----------------------------------------------------------------------------
(* C2 *)

\* C2: for a model (requested once in its run) whose stream delivered chunks
\* c1..cn and then completed, once its complete callback has finished and no
\* chunk write for its row is in flight any more, the stored response text is
\* c1 + ... + cn.
C2_StoredTextIsConcatenation ==
    \A r \in Runs : \A i \in StreamsOf(r) :
        LET st == stream[r][i] IN
        ( /\ st.modelId \in DOMAIN run[r].responseMap
          /\ Occurrences(run[r].modelIds, st.modelId) = 1
          /\ Completed(st)
          /\ st.cb = "done"
          /\ \A w \in writes : w.responseId # RowOf(r, i) )
        => responses[RowOf(r, i)].response = st.fullResponse

----------------------------------------------------------------------------
(* C3 *)

\* C3: while a session is in status completed, its totalTokens is the sum of
\* inputTokens + outputTokens over its responses in status completed and its
\* totalCost is the sum of their cost.
C3_AggregatesMatchCompleted ==
    \A s \in DOMAIN sessions :
        sessions[s].status = "completed" =>
            LET done == CompletedResponses(responses, s) IN
            /\ sessions[s].totalTokens =
                   SumOver([id \in done |-> OrZero(responses[id].inputTokens)
                                            + OrZero(responses[id].outputTokens)], done)
            /\ sessions[s].totalCost =
                   SumOver([id \in done |-> OrZero(responses[id].cost)], done)

----------------------------------------------------------------------------
(* C4 *)

\* a step in which stream i of run r fails: the provider error is handed to
\* onError, or the error callback's markResponseAsError reaches the store
FailureStep(r, i) ==
    /\ i \in StreamsOf(r)
    /\ \/ ~Errored(stream[r][i]) /\ Errored(stream'[r][i])
       \/ stream[r][i].cb = "markError" /\ stream'[r][i].cb = "done"

\* C4: a failure of one model's invocation leaves every other requested
\* model's stream, the events already delivered for it, its stored response
\* and its writes in flight as they were; and whether or not a sibling has
\* failed, every chunk a model's stream has produced has been delivered as a
\* model_chunk event, and a model whose complete callback has finished has
\* had its model_complete delivered after them.
C4_SiblingUntouched ==
    \A r \in Runs : \A i \in StreamsOf(r) :
        FailureStep(r, i) =>
            \A j \in StreamsOf(r) :
                stream[r][j].modelId # stream[r][i].modelId =>
                    /\ stream'[r][j] = stream[r][j]
                    /\ responses'[RowOf(r, j)] = responses[RowOf(r, j)]
                    /\ {w \in writes' : w.responseId = RowOf(r, j)}
                         = {w \in writes : w.responseId = RowOf(r, j)}

C4_EventsDelivered ==
    \A r \in Runs : \A j \in StreamsOf(r) :
        LET st == stream[r][j]
            n  == Len(st.fullResponse)
        IN  /\ Len(st.emitted) >= n
            /\ \A k \in 1..n : st.emitted[k] = Call("model_chunk", st.fullResponse[k])
            /\ (Completed(st) /\ st.cb = "done") =>
                   st.emitted = [k \in 1..(n + 1) |->
                                    IF k <= n THEN Call("model_chunk", st.fullResponse[k])
                                    ELSE Call("model_complete", "")]

C4_Isolation == []C4_EventsDelivered /\ [][C4_SiblingUntouched]_vars

\* one model has failed and its error is stored, and its sibling has
\* streamed a chunk, completed, and has its events and its row
C4_Witness ==
    \E r \in Runs : \E i \in StreamsOf(r), j \in StreamsOf(r) :
        /\ stream[r][i].modelId # stream[r][j].modelId
        /\ Errored(stream[r][i]) /\ stream[r][i].cb = "done"
        /\ responses[RowOf(r, i)].status = "error"
        /\ Completed(stream[r][j]) /\ stream[r][j].cb = "done"
        /\ Len(stream[r][j].fullResponse) >= 1
        /\ responses[RowOf(r, j)].status = "completed"
        /\ responses[RowOf(r, j)].response = stream[r][j].fullResponse

----------------------------------------------------------------------------
(* C5 *)

\* C5: a startComparisonStreaming whose list holds an id unknown to the
\* registry (called by the session's owner) does not fail as a whole: it
\* never enters its catch block and never rejects, and once it has resolved
\* the unknown id has a row in status error.
C5_UnknownModelIsPerModelError ==
    \A r \in Runs :
        ( /\ run[r].pc \notin {"idle", "createResponses"}
          /\ run[r].sessionId \in DOMAIN sessions
          /\ sessions[run[r].sessionId].userId = run[r].userId
          /\ \E k \in 1..Len(run[r].modelIds) : run[r].modelIds[k] \notin models )
        => /\ run[r].pc \notin {"catch", "rejected"}
           /\ run[r].pc = "resolved" =>
                 \A k \in 1..Len(run[r].modelIds) :
                     run[r].modelIds[k] \notin models =>
                         \E id \in ResponsesOf(responses, run[r].sessionId) :
                             /\ responses[id].modelId = run[r].modelIds[k]
                             /\ responses[id].status = "error"

----------------------------------------------------------------------------
(* C6 *)

\* C6: the callbacks of one model's stream are zero or more onChunk calls in
\* generation order, then at most one terminal call (onComplete or onError),
\* which is the last call; the stream has ended exactly when the terminal
\* call has been made.
C6_CallbackOrder ==
    \A r \in Runs : \A i \in StreamsOf(r) :
        LET st == stream[r][i]
            n  == Len(st.calls)
        IN  /\ \A k \in 1..n : IsTerminalCall(st.calls[k]) => k = n
            /\ \A k \in 1..n : st.calls[k].type = "chunk" =>
                                  st.calls[k] = Call("chunk", Script[k])
            /\ (st.pc = "resolved") <=> HasTerminal(st)

\* a stream has delivered two chunks and then made its terminal call
C6_Witness ==
    \E r \in Runs : \E i \in StreamsOf(r) :
        /\ Len(stream[r][i].calls) = 3
        /\ stream[r][i].calls[1].type = "chunk"
        /\ stream[r][i].calls[2].type = "chunk"
        /\ HasTerminal(stream[r][i])
        /\ stream[r][i].pc = "resolved"

----------------------------------------------------------------------------
(* C7 *)

\* C7: streamMultipleResponses has resolved only if every requested model id
\* has had its terminal callback invoked, and a run that is streaming leaves
\* that state only by resolving (no per-model failure rejects it).
C7_JoinedAfterAllTerminal ==
    \A r \in Runs :
        run[r].pc = "joined" =>
            /\ Len(stream[r]) = Len(run[r].modelIds)
            /\ \A i \in StreamsOf(r) : HasTerminal(stream[r][i])

C7_NoRejection ==
    \A r \in Runs :
        run[r].pc = "streaming" => run'[r].pc \in {"streaming", "joined"}

C7_JoinPoint == []C7_JoinedAfterAllTerminal /\ [][C7_NoRejection]_vars

\* a coordinator run has resolved with one model completed and one failed
C7_Witness ==
    \E r \in Runs :
        /\ run[r].pc = "joined"
        /\ \E i \in StreamsOf(r), j \in StreamsOf(r) :
              Completed(stream[r][i]) /\ Errored(stream[r][j])

----------------------------------------------------------------------------
(* C8 *)

Forward(from, to) ==
    \/ from = to
    \/ from = "pending"     /\ to = "in_progress"
    \/ from = "in_progress" /\ to \in {"completed", "failed"}

\* C8: every change of a session's stored status is a step forward along
\* pending -> in_progress -> {completed, failed}.
C8_StatusOnlyForward ==
    [][\A s \in DOMAIN sessions :
          Forward(sessions[s].status, sessions'[s].status)]_vars

----------------------------------------------------------------------------
(* C9 *)

\* C9: no two rows of model_responses have the same sessionId and modelId.
C9_OneRowPerSessionModel ==
    \A a \in DOMAIN responses : \A b \in DOMAIN responses :
        ( responses[a].sessionId = responses[b].sessionId
          /\ responses[a].modelId = responses[b].modelId ) => a = b

----------------------------------------------------------------------------
(* C10 *)

\* C10: a row whose stored status is completed or error is not changed by
\* any later write.
C10_TerminalRowsFrozen ==
    [][\A id \in DOMAIN responses :
          responses[id].status \in TerminalStatus => responses'[id] = responses[id]]_vars

----------------------------------------------------------------------------
(* C11 *)

\* the transitions of the state machine of a ModelResponse
ResponseTransition(from, to) ==
    \/ from = "pending"   /\ to = "streaming"
    \/ from = "streaming" /\ to = "completed"
    \/ from \in {"pending", "streaming"} /\ to = "error"

\* C11: every change of the stored status of a ModelResponse is pending ->
\* streaming, streaming -> completed, pending -> error or streaming -> error.
C11_ResponseStateMachine ==
    [][\A id \in DOMAIN responses :
          responses'[id].status # responses[id].status =>
              ResponseTransition(responses[id].status, responses'[id].status)]_vars

----------------------------------------------------------------------------
(* C12 *)

\* every requested model of run r has ended with onError
AllErrored(r) ==
    /\ Len(stream[r]) = Len(run[r].modelIds)
    /\ \A i \in StreamsOf(r) : Errored(stream[r][i])

\* the value of a stored quotient is 0
IsZero(q) == q.num = 0

\* C12: when the one run of a session has resolved (the orchestration did not
\* throw) and every requested model ended in error, the session is in status
\* completed with totalTokens = 0, totalCost = 0 and averageResponseTime = 0.
C12_AllErroredIsCompleted ==
    \A r \in Runs :
        (run[r].pc = "resolved" /\ AllErrored(r)) =>
            LET s == sessions[run[r].sessionId] IN
            /\ s.status = "completed"
            /\ s.totalTokens = 0
            /\ s.totalCost = 0
            /\ IsZero(s.averageResponseTime)

\* a run of two different models has resolved, both failed at their provider
\* and both errors are stored
C12_Witness ==
    \E r \in Runs :
        /\ run[r].pc = "resolved"
        /\ AllErrored(r)
        /\ Len(stream[r]) = 2
        /\ stream[r][1].modelId # stream[r][2].modelId
        /\ \A i \in StreamsOf(r) :
              /\ stream[r][i].cb = "done"
              /\ responses[RowOf(r, i)].status = "error"

----------------------------------------------------------------------------
(* C13 *)

\* a step in which the try block of run r throws
Throws(r) == run[r].pc # "catch" /\ run'[r].pc = "catch"

\* a step in which run r rejects
Rejects(r) == run[r].pc # "rejected" /\ run'[r].pc = "rejected"

----------------------------------------------------------------------------
(* C15 *)

\* run r has been called by the owner of its session with registered ids only
Regular(r) ==
    /\ run[r].pc # "idle"
    /\ sessions[run[r].sessionId].userId = run[r].userId
    /\ \A k \in 1..Len(run[r].modelIds) : run[r].modelIds[k] \in models

----------------------------------------------------------------------------
(* Vocabulary of the relay properties *)

ModelEvents == {"model_chunk", "model_complete", "model_error"}

RoomEvents == ModelEvents \cup {"comparison_complete"}

\* the events of the given kinds that are on the wire
OnWire(w, kinds) == {k \in 1..Len(w) : w[k].event \in kinds}

\* the terminal event of a stream has been handed to the gateway
TerminalEmitted(st) ==
    \E k \in 1..Len(st.emitted) : st.emitted[k].type \in {"model_complete", "model_error"}

\* a step in which run r resolves
Resolves(r) == run[r].pc # "resolved" /\ run'[r].pc = "resolved"

----------------------------------------------------------------------------
(* C14 *)

\* C14: comparison_complete is emitted only in the step in which the run of
\* a start_comparison resolves (so at most once for it), and at that step the
\* terminal event (model_complete or model_error) of every requested model
\* has already been emitted.
C14_CompleteAfterTerminalEvents ==
    [][\A k \in OnWire(wire', {"comparison_complete"}) :
          /\ Cardinality(OnWire(wire', {"comparison_complete"})) = 1
          /\ \E r \in Runs :
                /\ Resolves(r)
                /\ run[r].sessionId = wire'[k].sessionId
                /\ Len(stream[r]) = Len(run[r].modelIds)
                /\ \A i \in StreamsOf(r) : TerminalEmitted(stream[r][i])]_vars

----------------------------------------------------------------------------
(* C16 *)

\* a step in which socket c joins a session
Joins(c) == clients[c] = "connected" /\ clients'[c] = "joined"

\* the number of callback events the streams of run r handed over in this step
RECURSIVE HandedOver(_, _)
HandedOver(r, n) ==
    IF n = 0 THEN 0 ELSE Len(NewEvents(r, n)) + HandedOver(r, n - 1)

\* C16: every model event a run hands to the gateway and every
\* comparison_complete is emitted in that step to exactly the sockets that are
\* in the session's room then, whenever they joined; and the step in which a
\* socket joins emits nothing but its session_joined acknowledgement, so no
\* earlier chunk is replayed to it.
C16_LateJoinNoReplay ==
    [][/\ \A k \in OnWire(wire', RoomEvents) :
             wire'[k].to = rooms[wire'[k].sessionId]
       /\ \A r \in Runs :
             run'[r].pc # "idle" =>
                 Cardinality({k \in OnWire(wire', ModelEvents) :
                                 wire'[k].sessionId = run'[r].sessionId})
                     = HandedOver(r, Len(stream'[r]))
       /\ \A r \in Runs :
             Resolves(r) => OnWire(wire', {"comparison_complete"}) # {}
       /\ \A c \in Clients :
             Joins(c) =>
                 /\ Len(wire') = 1
                 /\ wire'[1].event = "session_joined"
                 /\ wire'[1].to = {c}]_vars

\* a socket has just joined a session whose run has already emitted a chunk
\* and is still streaming; it has received its acknowledgement only
C16_Witness ==
    \E c \in Clients :
        /\ clients[c] = "joined"
        /\ c \in rooms[1]
        /\ wire = <<toClient(c, "session_joined", 1, "")>>
        /\ run[1].pc = "streaming"
        /\ \E i \in StreamsOf(1) :
              /\ stream[1][i].pc = "streaming"
              /\ stream[1][i].emitted # <<>>

----------------------------------------------------------------------------
(* C17 *)

\* a step in which socket c leaves its session or disconnects
Departs(c) == clients[c] \in {"connected", "joined"} /\ clients'[c] \in {"left", "gone"}

\* the observers activeSessions records for a session
Members(map, sessionId) == IF sessionId \in DOMAIN map THEN map[sessionId] ELSE {}

\* C17: a leave_session or disconnect of one socket removes that socket from
\* its rooms and from activeSessions and changes nothing else: every other
\* socket keeps its memberships, the runs, their streams and the store are as
\* they were; and every later event of a session is emitted to all sockets
\* that are in its room.
C17_DepartureIsolated ==
    [][/\ \A c \in Clients :
             Departs(c) =>
                 /\ \A s \in DOMAIN rooms :
                       /\ rooms'[s] = rooms[s] \ {c}
                       /\ Members(activeSessions', s) = Members(activeSessions, s) \ {c}
                 /\ \A d \in Clients \ {c} : clients'[d] = clients[d]
                 /\ UNCHANGED <<sessions, responses, run, stream, writes>>
       /\ \A k \in OnWire(wire', RoomEvents) :
             /\ wire'[k].to = rooms'[wire'[k].sessionId]
             /\ rooms' = rooms]_vars

\* two sockets had joined the session, one of them has left, and a model
\* event of the run is on the wire for the one that stayed
C17_Witness ==
    \E c \in Clients, d \in Clients :
        /\ clients[c] = "left"
        /\ clients[d] = "joined"
        /\ Members(activeSessions, 1) = {d}
        /\ \E k \in OnWire(wire, ModelEvents) : wire[k].to = {d}

----------------------------------------------------------------------------
(* C18 *)

\* activeSessions maps no session to an empty set
NoEmptyEntry == \A s \in DOMAIN activeSessions : activeSessions[s] # {}

\* the fan-out of run r is running and the last observer of its session has
\* left or disconnected
Headless(r) ==
    /\ Regular(r)
    /\ run[r].pc = "streaming"
    /\ rooms[run[r].sessionId] = {}
    /\ \E c \in Clients : clients[c] \in {"left", "gone"}

\* run r has resolved with its session completed and the terminal write of
\* each of its models has reached the store
Concluded(r) ==
    /\ run[r].pc = "resolved"
    /\ sessions[run[r].sessionId].status = "completed"
    /\ \A i \in StreamsOf(r) : stream[r][i].cb = "done"

\* a step in which the terminal write of stream i of run r reaches the store
TerminalWriteLands(r, i) ==
    /\ i \in StreamsOf(r)
    /\ stream[r][i].cb \in {"finalize", "markError"}
    /\ stream'[r][i].cb = "done"

\* C18: activeSessions never maps a session to an empty observer set, the
\* departure of a session's last observer removes the session's entry, and a
\* fan-out that has lost its last observer goes on: the terminal write of
\* every model reaches the store, where it sets the row's status to completed
\* or error, and the run resolves with the session in status completed (runs
\* are made one at a time, so the run without observers is the one in
\* progress).
C18_HeadlessRunGoesOn ==
    /\ []NoEmptyEntry
    /\ [][\A c \in Clients : \A s \in DOMAIN rooms :
             (Departs(c) /\ rooms'[s] = {}) => s \notin DOMAIN activeSessions']_vars
    /\ [][\A r \in Runs : \A i \in Positions :
             TerminalWriteLands(r, i) =>
                 responses'[RowOf(r, i)].status \in TerminalStatus]_vars
    /\ (\E r \in Runs : Headless(r)) ~> (\A r \in Runs : Regular(r) => Concluded(r))

\* the only observer of the session has just left while a model of the run
\* is streaming; the session has no entry in activeSessions
C18_Witness ==
    \E c \in Clients :
        /\ wire = <<toClient(c, "session_left", 1, "")>>
        /\ Headless(1)
        /\ 1 \notin DOMAIN activeSessions
        /\ \E i \in StreamsOf(1) : stream[1][i].pc = "streaming"

----------------------------------------------------------------------------
(* C20 *)

\* the responses of session s in status completed
CompletedOf(s) ==
    {id \in DOMAIN responses : responses[id].sessionId = s /\ responses[id].status = "completed"}

\* the number q (num / den) is the arithmetic mean of responseTimeMs over the
\* non-empty set of responses ids
IsMeanOver(q, ids) ==
    q.num * Cardinality(ids)
        = q.den * SumOver([id \in ids |-> OrZero(responses[id].responseTimeMs)], ids)

\* C20: a call of updateSessionMetrics that changes a session leaves its
\* averageResponseTime at 0 when no response of that session is in status
\* completed, and otherwise at the arithmetic mean of responseTimeMs over
\* exactly the responses of that session in status completed (responses of
\* other sessions and responses in any other status do not count).
C20_AverageIsMeanOfCompleted ==
    [][\A s \in DOMAIN sessions :
          sessions'[s] # sessions[s] =>
              LET q == sessions'[s].averageResponseTime IN
              IF CompletedOf(s) = {} THEN IsZero(q) ELSE IsMeanOver(q, CompletedOf(s))]_vars

\* session 1 holds the mean 1000.5 of its two completed responses (900 and
\* 1101), its third response having ended in error
C20_Witness ==
    /\ Len(responses) = 3
    /\ \A id \in 1..3 : responses[id].sessionId = 1
    /\ responses[1].status = "completed" /\ responses[1].responseTimeMs = {900}
    /\ responses[2].status = "completed" /\ responses[2].responseTimeMs = {1101}
    /\ responses[3].status = "error"
    /\ sessions[1].averageResponseTime = Ratio(2001, 2)

----------------------------------------------------------------------------
(* C19 *)

\* run r was the scenario and is over: two different models were requested,
\* the first streamed some of the script's increments and completed, the
\* second failed at once with "rate limit exceeded"; the call has resolved,
\* both callbacks have finished and no write is in flight
ScenarioOver(r) ==
    /\ run[r].pc = "resolved"
    /\ Len(run[r].modelIds) = 2
    /\ run[r].modelIds[1] # run[r].modelIds[2]
    /\ Completed(stream[r][1]) /\ stream[r][1].cb = "done"
    /\ stream[r][1].fullResponse # <<>>
    /\ Errored(stream[r][2]) /\ stream[r][2].cb = "done"
    /\ stream[r][2].fullResponse = <<>>
    /\ stream[r][2].error = "rate limit exceeded"
    /\ writes = {}

\* C19: when the scenario is over (m1 streamed "Rec", "ursion", ... and
\* completed with 5 input tokens, 8 output tokens, its cost and 900 ms; m2
\* failed at once with "rate limit exceeded"), whatever the interleaving was,
\* the stored text of m1 is the concatenation of its increments and its status
\* is completed, m2 is in status error with errorMessage "rate limit
\* exceeded", and the session has totalTokens 13, totalCost the cost of m1,
\* averageResponseTime 900 and status completed.
C19_ScenarioFinalState ==
    \A r \in Runs :
        ScenarioOver(r) =>
            LET m1 == responses[RowOf(r, 1)]
                m2 == responses[RowOf(r, 2)]
                session == sessions[run[r].sessionId]
            IN  /\ m1.response = stream[r][1].fullResponse
                /\ m1.status = "completed"
                /\ m2.status = "error"
                /\ m2.errorMessage = {"rate limit exceeded"}
                /\ session.totalTokens = 13
                /\ session.totalCost = stream[r][1].metrics.cost
                /\ session.averageResponseTime.num = 900 * session.averageResponseTime.den
                /\ session.status = "completed"

----------------------------------------------------------------------------
(* C21 *)

\* the pricing table, in 10^-5 dollars per 1000 tokens
PricingTable ==
    [m \in {"gpt-3.5-turbo", "gpt-4", "claude-sonnet-4-20250514",
            "claude-3-5-haiku-20241022", "gemini-2.5-flash-lite", "gemini-2.0-flash"} |->
        CASE m = "gpt-3.5-turbo"             -> <<150, 200>>
          [] m = "gpt-4"                     -> <<3000, 6000>>
          [] m = "claude-sonnet-4-20250514"  -> <<300, 1500>>
          [] m = "claude-3-5-haiku-20241022" -> <<25, 125>>
          [] OTHER                           -> <<10, 40>>]

\* C21: getPricing(modelId) returns the table entry of a listed id and
\* {input: 0, output: 0} for every id that is not in the pricing table.
C21_PricingOrZero ==
    api.op = "getPricing" =>
        IF api.arg \in DOMAIN PricingTable
        THEN api.result = [input  |-> PricingTable[api.arg][1],
                           output |-> PricingTable[api.arg][2]]
        ELSE api.result = [input |-> 0, output |-> 0]

----------------------------------------------------------------------------
(* C23 *)

\* the credential and the two models of each provider
ProviderModels ==
    [c \in Credentials |->
        CASE c = "OPENAI_API_KEY"    -> {"gpt-3.5-turbo", "gpt-4"}
          [] c = "ANTHROPIC_API_KEY" -> {"claude-sonnet-4-20250514", "claude-3-5-haiku-20241022"}
          [] OTHER                   -> {"gemini-2.5-flash-lite", "gemini-2.0-flash"}]

\* C23: under every combination of present and absent provider credentials
\* the service is constructed, and getAvailableModels lists both models of
\* every provider whose credential is present and nothing else: none of a
\* provider whose credential is absent.
C23_RegistryFollowsCredentials ==
    api.op = "getAvailableModels" =>
        /\ \A c \in config : ProviderModels[c] \subseteq api.result
        /\ \A c \in Credentials \ config : ProviderModels[c] \cap api.result = {}
        /\ api.result \subseteq UNION {ProviderModels[c] : c \in Credentials}
        /\ Cardinality(api.result) = 2 * Cardinality(config)

\* only the Anthropic credential is set and the two Anthropic models are listed
C23_Witness ==
    /\ config = {"ANTHROPIC_API_KEY"}
    /\ api.op = "getAvailableModels"
    /\ api.result = {"claude-sonnet-4-20250514", "claude-3-5-haiku-20241022"}

----------------------------------------------------------------------------
(* C25 *)

\* the words of a text: its maximal runs of characters that are not white space
wordCount(text) ==
    Cardinality({k \in 1..Len(text) :
                    text[k] # " " /\ (k = 1 \/ text[k - 1] = " ")})

\* the least integer n with n * den >= num
CeilingOf(num, den) == CHOOSE n \in 0..num : n * den >= num /\ (n - 1) * den < num

\* C25: for every text the token estimate is
\* max(ceil(wordCount * 1.3), ceil(characterCount / 3.5)), and it is never
\* less than 1.
C25_EstimateFormula ==
    api.op = "estimateTokens" =>
        LET byWords == CeilingOf(wordCount(api.arg) * 13, 10)
            byChars == CeilingOf(Len(api.arg) * 2, 7)
        IN  /\ api.result = (IF byWords >= byChars THEN byWords ELSE byChars)
            /\ api.result >= 1

----------------------------------------------------------------------------
(* C22 *)

\* the answer carries no session data
NotFound(result) == DOMAIN result = {"error"}

\* C22: getComparison(sessionId, userId) answers with the session only when it
\* exists and userId owns it, and otherwise fails with a not-found error that
\* carries no session data; getComparisonHistory(userId, ...) lists only
\* sessions that userId owns, each once, by createdAt from the newest on,
\* beginning with the newest one when offset is 0.
C22_OwnSessionsOnly ==
    /\ api.op = "getComparison" =>
          IF /\ api.arg.sessionId \in DOMAIN sessions
             /\ sessions[api.arg.sessionId].userId = api.arg.userId
          THEN /\ ~NotFound(api.result)
               /\ api.result.id = api.arg.sessionId
               /\ api.result.session = sessions[api.arg.sessionId]
          ELSE NotFound(api.result)
    /\ api.op = "getComparisonHistory" =>
          LET list == api.result
              owned == {s \in DOMAIN sessions : sessions[s].userId = api.arg.userId}
          IN  /\ \A k \in 1..Len(list) : list[k] \in owned
              /\ \A i, j \in 1..Len(list) : i # j => list[i] # list[j]
              /\ \A i, j \in 1..Len(list) :
                    i < j => sessions[list[i]].createdAt >= sessions[list[j]].createdAt
              /\ (api.arg.offset = 0 /\ owned # {}) =>
                    /\ list # <<>>
                    /\ \A s \in owned : sessions[list[1]].createdAt >= sessions[s].createdAt

\* a user asked for a session that exists and belongs to somebody else, and
\* was told it was not found
C22_Witness ==
    /\ api.op = "getComparison"
    /\ api.arg.sessionId \in DOMAIN sessions
    /\ sessions[api.arg.sessionId].userId # api.arg.userId
    /\ NotFound(api.result)
    /\ \E s \in DOMAIN sessions : sessions[s].userId = api.arg.userId

----------------------------------------------------------------------------
(* C24 *)

\* a step that answers a create-comparison request
AnswersCreate == api'.op = "createComparison" /\ <<api, sessions>>' # <<api, sessions>>

\* C24: a create-comparison request whose prompt is empty or longer than
\* 10,000 characters (or is no string) is answered with 400 and leaves the
\* store and every run as they were: no session is created and no model is
\* invoked; a prompt of 1 to 10,000 characters is accepted and adds one
\* session, in status pending, with that prompt and owner.
C24_PromptValidated ==
    [][AnswersCreate =>
          LET prompt == api'.arg.prompt IN
          IF prompt.type = "string" /\ prompt.length >= 1 /\ prompt.length <= 10000
          THEN /\ Len(sessions') = Len(sessions) + 1
               /\ SubSeq(sessions', 1, Len(sessions)) = sessions
               /\ sessions'[Len(sessions')].status = "pending"
               /\ sessions'[Len(sessions')].prompt = prompt
               /\ sessions'[Len(sessions')].userId = api'.arg.userId
               /\ api'.result = [sessionId |-> Len(sessions'), status |-> "pending"]
          ELSE /\ UNCHANGED <<sessions, responses, run, stream, writes>>
               /\ DOMAIN api'.result = {"statusCode", "message"}
               /\ api'.result.statusCode = 400]_vars

\* a prompt of 10,001 characters has just been refused, a prompt of 10,000
\* characters had been accepted before
C24_Witness ==
    /\ api.op = "createComparison"
    /\ api.arg.prompt = Prompt(10001)
    /\ api.result.statusCode = 400
    /\ Len(sessions) = 1
    /\ sessions[1].prompt = Prompt(10000)
    /\ sessions[1].status = "pending"

----------------------------------------------------------------------------
(* C26 *)

MetricFields(row) == <<row.inputTokens, row.outputTokens, row.cost, row.responseTimeMs>>

\* none, resp. each, of the four metric columns of the row holds a value
Unpopulated(row) == \A k \in 1..4 : MetricFields(row)[k] = {}
Populated(row)   == \A k \in 1..4 : MetricFields(row)[k] # {}

\* C26: in every reachable state a stored response has inputTokens,
\* outputTokens, cost and responseTimeMs populated only if its status is
\* completed, and a write that populates any of them populates all four and
\* sets the status to completed.
C26_MetricsOnlyAtCompleted ==
    /\ [](\A id \in DOMAIN responses :
             ~Unpopulated(responses[id]) => responses[id].status = "completed")
    /\ [][\A id \in DOMAIN responses :
             MetricFields(responses'[id]) # MetricFields(responses[id]) =>
                 /\ Unpopulated(responses[id])
                 /\ Populated(responses'[id])
                 /\ responses'[id].status = "completed"]_vars

----------------------------------------------------------------------------
(* C27 *)

\* a provider invocation of the model that hangs is under way (in
\* SpecStalled it never terminates)
Stalled == \E i \in StreamsOf(1) : Hangs(i) /\ stream[1][i].pc = "streaming"

\* a step in which the provider of stream i of run 1 delivers an increment
DeliversChunk(i) ==
    /\ i \in StreamsOf(1)
    /\ Len(stream'[1][i].fullResponse) > Len(stream[1][i].fullResponse)

\* C27: while one model's provider invocation hangs, the join does not fire:
\* the call stays at Promise.all, the session stays in_progress, and neither
\* comparison_complete nor comparison_error is emitted, for as long as it
\* hangs; every other model goes on: each increment its provider delivers is
\* emitted as model_chunk to the session's room, and its terminal write
\* eventually reaches the store, where it sets the row to completed or error.
C27_StalledBlocksOnlyJoin ==
    /\ [](Stalled =>
             /\ run[1].pc = "streaming"
             /\ sessions[run[1].sessionId].status = "in_progress"
             /\ OnWire(wire, {"comparison_complete", "comparison_error"}) = {})
    /\ [][Stalled => Stalled']_vars
    /\ [][\A i \in Positions :
             (Stalled /\ ~Hangs(i) /\ DeliversChunk(i)) =>
                 \E k \in 1..Len(wire') :
                     /\ wire'[k].event = "model_chunk"
                     /\ wire'[k].modelId = stream[1][i].modelId
                     /\ wire'[k].to = rooms[run[1].sessionId]]_vars
    /\ [][\A i \in Positions :
             (Stalled /\ ~Hangs(i) /\ TerminalWriteLands(1, i)) =>
                 responses'[RowOf(1, i)].status \in TerminalStatus]_vars
    /\ Stalled ~> (\A i \in StreamsOf(1) : ~Hangs(i) => stream[1][i].cb = "done")

\* the first model hangs; the second has streamed an increment and completed,
\* its row is completed, and the session is still in_progress
C27_Witness ==
    /\ Stalled
    /\ Hangs(1)
    /\ Len(stream[1]) = 2
    /\ stream[1][2].fullResponse # <<>>
    /\ Completed(stream[1][2])
    /\ stream[1][2].cb = "done"
    /\ responses[RowOf(1, 2)].status = "completed"
    /\ sessions[1].status = "in_progress"
    /\ run[1].pc = "streaming"

----------------------------------------------------------------------------
(* C28 *)

\* C28: when startComparisonStreaming rejects inside handleStartComparison,
\* that step emits exactly one comparison_error, carrying the session id and
\* the message of the exception, to the socket that sent start_comparison and
\* to nobody else; no other step emits a comparison_error; and no
\* comparison_complete is emitted in that step or in any step after it.
C28_OneErrorNoComplete ==
    /\ [][\A r \in Runs :
             Rejects(r) =>
                 LET errors == OnWire(wire', {"comparison_error"}) IN
                 /\ Cardinality(errors) = 1
                 /\ \A k \in errors : /\ wire'[k].sessionId = run[r].sessionId
                                      /\ wire'[k].data = run'[r].rejection
                                      /\ wire'[k].to \subseteq {"c1"}
                 /\ OnWire(wire', {"comparison_complete"}) = {}]_vars
    /\ [][(\A r \in Runs : ~Rejects(r)) => OnWire(wire', {"comparison_error"}) = {}]_vars
    /\ [][\A r \in Runs :
             run[r].pc = "rejected" =>
                 /\ run'[r].pc = "rejected"
                 /\ OnWire(wire', {"comparison_complete"}) = {}]_vars

\* the start failed: its sender has been sent the one comparison_error, while
\* the other socket, an observer of the session, has been sent nothing
C28_Witness ==
    /\ run[1].pc = "rejected"
    /\ sessions[1].status = "failed"
    /\ "c2" \in rooms[1]
    /\ Len(wire) = 1
    /\ wire[1].event = "comparison_error"
    /\ wire[1].to = {"c1"}

----------------------------------------------------------------------------
(* C29 *)

\* a step in which startComparisonStreaming is called as run r
Starts(r) == run[r].pc = "idle" /\ run'[r].pc # "idle"

\* a step in which run r gets past the creation of its rows
RowsCreated(r) == run[r].pc = "createResponses" /\ run'[r].pc = "getSession"

\* C29: startComparisonStreaming sets the session to in_progress in its first
\* step, before any row exists; it then creates one row in status pending for
\* every position of the requested list while the session is in_progress and
\* no model has been invoked; and a model is invoked, and any chunk, complete
\* or error callback runs, only when the row of every requested model exists.
C29_StartOrder ==
    /\ [][\A r \in Runs :
             Starts(r) =>
                 /\ sessions'[run'[r].sessionId].status = "in_progress"
                 /\ responses' = responses
                 /\ stream'[r] = <<>>]_vars
    /\ [][\A r \in Runs :
             RowsCreated(r) =>
                 /\ sessions[run[r].sessionId].status = "in_progress"
                 /\ Len(responses') = Len(responses) + Len(run[r].modelIds)
                 /\ \A k \in 1..Len(run[r].modelIds) :
                       LET row == responses'[Len(responses) + k] IN
                       /\ row.status = "pending"
                       /\ row.modelId = run[r].modelIds[k]
                       /\ row.sessionId = run[r].sessionId
                 /\ stream'[r] = <<>>]_vars
    /\ [](\A r \in Runs :
             stream[r] # <<>> =>
                 /\ run[r].pc \notin {"idle", "createResponses", "getSession"}
                 /\ Len(stream[r]) = Len(run[r].modelIds)
                 /\ \A i \in StreamsOf(r) :
                       /\ stream[r][i].modelId \in DOMAIN run[r].responseMap
                       /\ RowOf(r, i) \in DOMAIN responses
                       /\ responses[RowOf(r, i)].modelId = stream[r][i].modelId
                       /\ responses[RowOf(r, i)].sessionId = run[r].sessionId)

\* two models were requested; both rows exist, and the first callback, a
\* chunk of the second model, has run
C29_Witness ==
    /\ Len(run[1].modelIds) = 2
    /\ Len(responses) = 2
    /\ Len(stream[1]) = 2
    /\ stream[1][1].calls = <<>>
    /\ Len(stream[1][2].calls) = 1
    /\ stream[1][2].calls[1].type = "chunk"

\* ---------------------------------------------------------------------------
\* The web client that creates the session (socket c1) and the gateway
\* ---------------------------------------------------------------------------

\* the gateway has emitted session_joined to socket c: handleJoinSession is
\* the only step that makes a socket joined, and only a joined one leaves
Acknowledged(c) == clients[c] \in {"joined", "left"}

\* handlePromptSubmit, lines 79-88 of the page, and startComparison of the
\* hook: the listener for session_joined that the page registered after
\* emitting join_session runs, and emits start_comparison for the session;
\* the gateway handles it.  Nothing removes the listener but its own run.
handleSessionJoined(r, sessionId, userId, modelIds) ==
    /\ Acknowledged("c1")
    /\ handleStartComparison(r, sessionId, userId, modelIds)

\* handleNewComparison, lines 99-105 of the page: the user asks for a new
\* comparison, the page emits leave_session for the current session.  The
\* button is there from the moment createComparison has answered.
handleNewComparison(sessionId) == handleLeaveSession("c1", sessionId)

\* one session, the page that created it, another observer
NextClient ==
    \/ sessions = <<>> /\ createComparison("u1") /\ wire' = <<>>
          /\ UNCHANGED <<rooms, activeSessions, clients, ro>>
    \/ \E c \in Clients : handleJoinSession(c, 1)
    \/ handleNewComparison(1)
    \/ \E c \in Clients \ {"c1"} : handleLeaveSession(c, 1)
    \/ \E c \in Clients : handleDisconnect(c)
    \/ \E r \in Callable \cap {1} : \E u \in Users, m \in ModelIdLists(Budget) :
          handleSessionJoined(r, 1, u, m)
    \/ relay(1, createModelResponses(1))
    \/ relay(1, startStreams(1))
    \/ \E i \in Positions : relay(1, providerChunk(1, i))
    \/ \E i \in Positions : relay(1, providerEnd(1, i))
    \/ \E i \in Positions : relay(1, providerFail(1, i))
    \/ \E w \in writes : relay(1, chunkWriteDone(w))
    \/ \E i \in Positions : relay(1, terminalWriteDone(1, i))
    \/ relay(1, join(1))
    \/ relay(1, metricsRead(1))
    \/ relay(1, metricsWrite(1))
    \/ comparisonComplete(1)
    \/ comparisonError(1)

SpecClient == Init /\ [][NextClient]_vars

\* ---------------------------------------------------------------------------
\* C30
\* ---------------------------------------------------------------------------

----------------------------------------------------------------------------
(* C31 *)

\* the metrics that a row holds are the ones the provider call produced
HoldsMetrics(row, metrics) ==
    /\ row.inputTokens = {metrics.inputTokens}
    /\ row.outputTokens = {metrics.outputTokens}
    /\ row.cost = {metrics.cost}
    /\ row.responseTimeMs = {metrics.responseTimeMs}

\* C31: a model_complete of a model is emitted only by the callback whose
\* finalizeModelResponse has returned: in the step that emits it the model's
\* row holds the metrics and status completed; a model_error is emitted only
\* by the callback whose markResponseAsError has returned: the row holds
\* status error and the message.  No stream whose terminal write is still
\* outstanding has emitted a terminal event.
C31_WriteBeforeBroadcast ==
    /\ [][\A k \in 1..Len(wire') :
             /\ wire'[k].event = "model_complete" =>
                   \E i \in StreamsOf(1) :
                       /\ stream[1][i].modelId = wire'[k].modelId
                       /\ stream[1][i].cb = "finalize" /\ stream'[1][i].cb = "done"
                       /\ responses'[RowOf(1, i)].status = "completed"
                       /\ HoldsMetrics(responses'[RowOf(1, i)], stream[1][i].metrics)
             /\ wire'[k].event = "model_error" =>
                   \E i \in StreamsOf(1) :
                       /\ stream[1][i].modelId = wire'[k].modelId
                       /\ stream[1][i].cb = "markError" /\ stream'[1][i].cb = "done"
                       /\ responses'[RowOf(1, i)].status = "error"
                       /\ responses'[RowOf(1, i)].errorMessage = {wire'[k].data}]_vars
    /\ [](\A i \in StreamsOf(1) :
             stream[1][i].cb \in {"finalize", "markError"} => ~TerminalEmitted(stream[1][i]))

\* one model has completed and one has failed; both terminal events are out
C31_Witness ==
    /\ Len(stream[1]) = 2
    /\ \E i, j \in StreamsOf(1) :
          /\ Completed(stream[1][i]) /\ Errored(stream[1][j])
          /\ TerminalEmitted(stream[1][i]) /\ TerminalEmitted(stream[1][j])
          /\ responses[RowOf(1, i)].status = "completed"
          /\ responses[RowOf(1, j)].status = "error"

----------------------------------------------------------------------------
(* C32 *)

\* comparison_complete has been emitted for run r
CompleteEmitted(r) == run[r].pc = "resolved"

\* a terminal write of stream i of run r is outstanding
TerminalWriteOutstanding(r, i) ==
    i \in StreamsOf(r) /\ stream[r][i].cb \in {"finalize", "markError"}

\* C32: once comparison_complete of a run has been emitted no model_chunk,
\* model_complete or model_error of that run is emitted, and the session is
\* not set to completed while finalizeModelResponse or markResponseAsError of
\* one of the run's models is outstanding.
C32_NothingAfterComplete ==
    /\ [][CompleteEmitted(1) =>
             \A k \in OnWire(wire', ModelEvents) :
                 wire'[k].sessionId # run[1].sessionId]_vars
    /\ [][\A r \in Runs :
             Resolves(r) => \A i \in StreamsOf(r) : ~TerminalWriteOutstanding(r, i)]_vars

----------------------------------------------------------------------------
(* One comparison over a store whose writes may fail: responseRepository
   .update rejects.  No caller of the three writes of the callbacks holds
   their promise: updateModelResponse is not awaited by the chunk callback,
   and the promise of the async complete / error callback, which awaits
   finalizeModelResponse / markResponseAsError, is dropped by streamResponse.
   A rejection is therefore an unhandled one: the runtime either reports it
   and goes on, or ends the process, depending on its version and flags. *)

\* the trace that a rejected updateModelResponse leaves
Rejected(w) == [responseId |-> w.responseId, rejected |-> TRUE]

IsRejection(w) == "rejected" \in DOMAIN w

\* the updateModelResponse calls that have neither returned nor rejected
InFlight == {w \in writes : ~IsRejection(w)}

\* the process ends: nothing of the run goes on
processExit(r, streams) ==
    [i \in 1..Len(streams) |->
        [streams[i] EXCEPT !.pc = "exited",
                           !.cb = IF @ = "rejected" THEN @ ELSE "exited"]]

\* an unhandled rejection in run r, from the state (streams, pending)
unhandledRejection(r, streams, pending) ==
    \/ /\ stream' = [stream EXCEPT ![r] = streams]
       /\ writes' = pending
       /\ run' = run
    \/ /\ stream' = [stream EXCEPT ![r] = processExit(r, streams)]
       /\ writes' = {w \in pending : IsRejection(w)}
       /\ run' = [run EXCEPT ![r].pc = "exited"]

\* comparison.service.ts 180-183: the update of a chunk callback rejects
updateModelResponseRejects(r, w) ==
    /\ w \in InFlight
    /\ run[r].pc \notin {"idle", "exited"}
    /\ unhandledRejection(r, stream[r], (writes \ {w}) \cup {Rejected(w)})
    /\ UNCHANGED <<sessions, responses>>

\* comparison.service.ts 198-203, 210-212: the awaited finalizeModelResponse
\* or markResponseAsError rejects; the callback throws before it reaches
\* onModelComplete / onModelError
terminalWriteRejects(r, i) ==
    /\ i \in 1..Len(stream[r])
    /\ stream[r][i].cb \in {"finalize", "markError"}
    /\ unhandledRejection(r, [stream[r] EXCEPT ![i].cb = "rejected"], writes)
    /\ UNCHANGED <<sessions, responses>>

NextFailingStore ==
    \/ sessions = <<>> /\ createComparison("u1") /\ UNCHANGED <<gw, ro>>
    \/ \E r \in Callable \cap {1} : \E m \in ModelIdLists(Budget) :
          startComparisonStreaming(r, 1, "u1", m) /\ UNCHANGED <<gw, ro>>
    \/ createModelResponses(1) /\ UNCHANGED <<gw, ro>>
    \/ startStreams(1) /\ UNCHANGED <<gw, ro>>
    \/ \E i \in Positions : providerChunk(1, i) /\ UNCHANGED <<gw, ro>>
    \/ \E i \in Positions : providerEnd(1, i) /\ UNCHANGED <<gw, ro>>
    \/ \E i \in Positions : providerFail(1, i) /\ UNCHANGED <<gw, ro>>
    \/ \E w \in InFlight : chunkWriteDone(w) /\ UNCHANGED <<gw, ro>>
    \/ \E w \in InFlight : updateModelResponseRejects(1, w) /\ UNCHANGED <<gw, ro>>
    \/ \E i \in Positions : terminalWriteDone(1, i) /\ UNCHANGED <<gw, ro>>
    \/ \E i \in Positions : terminalWriteRejects(1, i) /\ UNCHANGED <<gw, ro>>
    \/ join(1) /\ UNCHANGED <<gw, ro>>
    \/ metricsRead(1) /\ UNCHANGED <<gw, ro>>
    \/ metricsWrite(1) /\ UNCHANGED <<gw, ro>>
    \/ setCompleted(1) /\ UNCHANGED <<gw, ro>>
    \/ catch(1) /\ UNCHANGED <<gw, ro>>

SpecFailingStore == Init /\ [][NextFailingStore]_vars

----------------------------------------------------------------------------
(* C33 *)

\* a write issued from the chunk, complete or error callback has rejected
WriteFailed ==
    \/ \E w \in writes : IsRejection(w)
    \/ \E i \in StreamsOf(1) : stream[1][i].cb = "rejected"

\* C33: when updateModelResponse, finalizeModelResponse or markResponseAsError
\* of a callback has rejected, the session is not in status completed, and
\* the call of startComparisonStreaming, once over, has rejected with the
\* session in status failed.
C33_WriteFailureFailsRun ==
    [](WriteFailed =>
          /\ sessions[1].status # "completed"
          /\ run[1].pc \in {"resolved", "rejected", "exited"} =>
                 run[1].pc = "rejected" /\ sessions[1].status = "failed")

----------------------------------------------------------------------------
(* C34 *)

\* run r is, after the step, a call made with a userId that does not own
\* the session named in the call
ByNonOwner(r) ==
    /\ run'[r].pc # "idle"
    /\ run'[r].userId # sessions[run'[r].sessionId].userId

\* C34: a call of startComparisonStreaming with a userId that does not own
\* the session never resolves, and no step of it changes the session's
\* stored status or creates a ModelResponse row for the session.
C34_NonOwnerLeavesSessionUnchanged ==
    /\ [](\A r \in Runs :
             run[r].pc = "resolved" =>
                 run[r].userId = sessions[run[r].sessionId].userId)
    /\ [][\A r \in Runs :
             ByNonOwner(r) =>
                 /\ sessions'[run'[r].sessionId].status = sessions[run'[r].sessionId].status
                 /\ ResponsesOf(responses', run'[r].sessionId)
                        = ResponsesOf(responses, run'[r].sessionId)]_vars

----------------------------------------------------------------------------
(* createComparison with and without modelIds, over every configuration of
   the credentials, followed by a start_comparison with the list it returned *)

\* comparison.service.ts 41-46
DefaultModels ==
    <<"gpt-3.5-turbo", "gpt-4", "claude-sonnet-4-20250514", "gemini-1.5-pro">>

\* the modelIds of a request: absent, or a list of ids
NoModelIds == [type |-> "undefined", items |-> <<>>]

ModelIds(list) == [type |-> "array", items |-> list]

\* modelIds || [...]
selectedModels(modelIds) ==
    IF modelIds.type = "undefined" THEN DefaultModels ELSE modelIds.items

\* comparison.service.ts 31-59: the session is created and the selected
\* models are returned with it
createComparisonWithModels(modelIds, userId) ==
    /\ sessions = <<>>
    /\ \E createdAt \in Clock(sessions) :
          sessions' = createSession(sessions, DefaultPrompt, userId, createdAt)
    /\ api' = [op |-> "createComparison",
               arg |-> [modelIds |-> modelIds, userId |-> userId],
               result |-> [sessionId |-> Len(sessions'),
                           models |-> selectedModels(modelIds),
                           status |-> sessions'[Len(sessions')].status]]
    /\ UNCHANGED <<responses, run, stream, writes, gw, config, models>>

\* startComparisonStreaming for the session and the list that createComparison
\* returned, called by the owner (the default list is longer than the lists
\* otherwise requested)
startReturnedModels(r) ==
    /\ api.op = "createComparison"
    /\ IF api.result.models = DefaultModels
       THEN /\ r \in Callable
            /\ sessions' = updateSessionStatus(sessions, api.result.sessionId, "in_progress")
            /\ run' = [run EXCEPT ![r] = [IdleRun EXCEPT !.pc = "createResponses",
                                                         !.sessionId = api.result.sessionId,
                                                         !.userId = api.arg.userId,
                                                         !.modelIds = DefaultModels]]
            /\ UNCHANGED <<responses, stream, writes>>
       ELSE startComparisonStreaming(r, api.result.sessionId, api.arg.userId,
                                     api.result.models)

NextDefaults ==
    \/ \E m \in {NoModelIds} \cup {ModelIds(list) : list \in ModelIdLists(2)} :
          createComparisonWithModels(m, "u1")
    \/ startReturnedModels(1) /\ UNCHANGED <<gw, ro>>
    \/ createModelResponses(1) /\ UNCHANGED <<gw, ro>>
    \/ startStreams(1) /\ UNCHANGED <<gw, ro>>
    \/ \E i \in Positions : providerChunk(1, i) /\ UNCHANGED <<gw, ro>>
    \/ \E i \in Positions : providerEnd(1, i) /\ UNCHANGED <<gw, ro>>
    \/ \E i \in Positions : providerFail(1, i) /\ UNCHANGED <<gw, ro>>
    \/ \E w \in writes : chunkWriteDone(w) /\ UNCHANGED <<gw, ro>>
    \/ \E i \in Positions : terminalWriteDone(1, i) /\ UNCHANGED <<gw, ro>>
    \/ join(1) /\ UNCHANGED <<gw, ro>>
    \/ metricsRead(1) /\ UNCHANGED <<gw, ro>>
    \/ metricsWrite(1) /\ UNCHANGED <<gw, ro>>
    \/ setCompleted(1) /\ UNCHANGED <<gw, ro>>
    \/ catch(1) /\ UNCHANGED <<gw, ro>>

SpecDefaults == InitLangChain /\ [][NextDefaults]_vars

----------------------------------------------------------------------------
(* C35 *)

\* createComparison was called without modelIds
DefaultsReturned == api.op = "createComparison" /\ api.arg.modelIds = NoModelIds

\* C35: with all three credentials configured, every id of the list that
\* createComparison returns when called without modelIds is registered, and
\* the comparison started with that list, once over, has resolved with the
\* session in status completed.
C35_DefaultModelsRegistered ==
    [](config = Credentials /\ DefaultsReturned =>
          /\ \A k \in 1..Len(api.result.models) :
                /\ api.result.models[k] \in models
                /\ api.result.models[k] \in getAvailableModels
          /\ run[1].pc \in {"resolved", "rejected"} =>
                /\ run[1].pc = "resolved"
                /\ sessions[1].status = "completed")

----------------------------------------------------------------------------
(* C36 *)

\* C36: in the step in which a run rejects, a comparison_error is emitted and
\* it is received by every socket that is then in the room of the run's
\* session.
C36_ErrorReachesRoom ==
    [][\A r \in Runs :
          Rejects(r) =>
              \E k \in OnWire(wire', {"comparison_error"}) :
                  /\ wire'[k].sessionId = run[r].sessionId
                  /\ rooms[run[r].sessionId] \subseteq wire'[k].to]_vars

----------------------------------------------------------------------------
(* The gateway with handleJoinSession taken in its two parts, up to
   'await client.join' and from there on, with the other handlers running in
   between.  (client.join returns what the adapter's addAll returns; the
   handler is suspended for as long as that takes.) *)

\* handleJoinSession, lines 70-80: up to the await of client.join
joinSessionBegin(c, sessionId) ==
    /\ clients[c] = "connected"
    /\ sessionId \in DOMAIN sessions
    /\ Budget > 0
    /\ rooms' = [rooms EXCEPT ![sessionId] = @ \cup {c}]
    /\ clients' = [clients EXCEPT ![c] = "joining"]
    /\ wire' = <<>>
    /\ UNCHANGED <<activeSessions, sessions, responses, run, stream, writes, ro>>

\* handleJoinSession, lines 82-91: after the await; nothing looks at the
\* socket's state before the id is added to activeSessions
joinSessionResume(c, sessionId) ==
    /\ clients[c] \in {"joining", "goneJoining"}
    /\ activeSessions' = activeSessionsAdd(activeSessions, sessionId, c)
    /\ clients' = [clients EXCEPT ![c] = IF @ = "joining" THEN "joined" ELSE "gone"]
    /\ wire' = <<Emission("session_joined", sessionId, "", "",
                          IF clients[c] = "joining" THEN {c} ELSE {})>>
    /\ UNCHANGED <<rooms, sessions, responses, run, stream, writes, ro>>

\* the socket closes while its handleJoinSession is suspended: it is taken
\* out of its rooms, then handleDisconnect, lines 54-64
handleDisconnectWhileJoining(c) ==
    /\ clients[c] = "joining"
    /\ rooms' = [s \in DOMAIN rooms |-> rooms[s] \ {c}]
    /\ activeSessions' = activeSessionsDeleteAll(activeSessions, c)
    /\ clients' = [clients EXCEPT ![c] = "goneJoining"]
    /\ wire' = <<>>
    /\ UNCHANGED <<sessions, responses, run, stream, writes, ro>>

NextJoinRace ==
    \/ sessions = <<>> /\ createComparison("u1") /\ wire' = <<>>
          /\ UNCHANGED <<rooms, activeSessions, clients, ro>>
    \/ \E c \in Clients : joinSessionBegin(c, 1)
    \/ \E c \in Clients : joinSessionResume(c, 1)
    \/ \E c \in Clients : handleLeaveSession(c, 1)
    \/ \E c \in Clients : handleDisconnect(c)
    \/ \E c \in Clients : handleDisconnectWhileJoining(c)
    \/ \E r \in Callable \cap {1} : \E u \in Users, m \in ModelIdLists(Budget) :
          clients["c1"] # "goneJoining" /\ handleStartComparison(r, 1, u, m)
    \/ relay(1, createModelResponses(1))
    \/ relay(1, startStreams(1))
    \/ \E i \in Positions : relay(1, providerChunk(1, i))
    \/ \E i \in Positions : relay(1, providerEnd(1, i))
    \/ \E i \in Positions : relay(1, providerFail(1, i))
    \/ \E w \in writes : relay(1, chunkWriteDone(w))
    \/ \E i \in Positions : relay(1, terminalWriteDone(1, i))
    \/ relay(1, join(1))
    \/ relay(1, metricsRead(1))
    \/ relay(1, metricsWrite(1))
    \/ comparisonComplete(1)
    \/ comparisonError(1)

SpecJoinRace == Init /\ [][NextJoinRace]_vars

----------------------------------------------------------------------------
(* C37 *)

\* socket c has disconnected
Disconnected(c) == clients[c] \in {"gone", "goneJoining"}

====
